---- MODULE Spec2Model ----
(***************************************************************************)
(* A model of the creator-analysis pipeline of HOLO_kit's backend:         *)
(* backend/agents/creator_analyzer.py (the LangGraph workflow and its      *)
(* nodes), backend/utils/helpers.py (platform detection, mock data),       *)
(* backend/utils/{youtube,github,instagram}_api.py (the platform clients)  *)
(* and backend/agents/summarizer_agent.py (the transcript summarizer).     *)
(*                                                                         *)
(* Text is modelled as a sequence of one-character strings, so that        *)
(* substring tests, case folding, slicing and splitting are computed the   *)
(* way Python computes them.  Platform tags, node names, dictionary keys   *)
(* and the fixed error messages are TLA+ strings.                          *)
(***************************************************************************)
EXTENDS Integers, Sequences, FiniteSets, TLC

----------------------------------------------------------------------------
(* Text primitives (Python str operations).                                *)

UpperLetters ==
    <<"A", "B", "C", "D", "E", "F", "G", "H", "I", "J", "K", "L", "M",
      "N", "O", "P", "Q", "R", "S", "T", "U", "V", "W", "X", "Y", "Z">>

LowerLetters ==
    <<"a", "b", "c", "d", "e", "f", "g", "h", "i", "j", "k", "l", "m",
      "n", "o", "p", "q", "r", "s", "t", "u", "v", "w", "x", "y", "z">>

Digits ==
    <<"0", "1", "2", "3", "4", "5", "6", "7", "8", "9">>

Range(s) ==
    {s[i] : i \in DOMAIN s}

\* str.lower() on one character.
LowerChar(c) ==
    IF \E i \in DOMAIN UpperLetters : UpperLetters[i] = c
    THEN LowerLetters[CHOOSE i \in DOMAIN UpperLetters : UpperLetters[i] = c]
    ELSE c

\* str.upper() on one character.
UpperChar(c) ==
    IF \E i \in DOMAIN LowerLetters : LowerLetters[i] = c
    THEN UpperLetters[CHOOSE i \in DOMAIN LowerLetters : LowerLetters[i] = c]
    ELSE c

\* str.lower()
Lower(s) ==
    [i \in DOMAIN s |-> LowerChar(s[i])]

\* str.upper()
Upper(s) ==
    [i \in DOMAIN s |-> UpperChar(s[i])]

IsSpace(c) ==
    c \in {" ", "\n", "\t"}

\* The slice s[i:j] with 0-based Python bounds already clamped to 0..len.
Slice(s, i, j) ==
    IF j <= i THEN <<>> ELSE SubSeq(s, i + 1, j)

\* s[:n]
Prefix(s, n) ==
    IF Len(s) <= n THEN s ELSE SubSeq(s, 1, n)

\* frag occurs in s at 1-based position i.
MatchesAt(frag, s, i) ==
    /\ i >= 1
    /\ i + Len(frag) - 1 <= Len(s)
    /\ \A k \in 1..Len(frag) : s[i + k - 1] = frag[k]

\* Python's  frag in s  on strings.
Contains(frag, s) ==
    \E i \in 1..(Len(s) + 1) : MatchesAt(frag, s, i)

\* str.startswith
StartsWith(s, frag) ==
    MatchesAt(frag, s, 1)

\* s from its first to its last position of keep ("" when keep is empty).
Span(s, keep) ==
    IF keep = {} THEN <<>>
    ELSE SubSeq(s, CHOOSE i \in keep : \A j \in keep : i <= j,
                   CHOOSE i \in keep : \A j \in keep : j <= i)

\* str.strip(chars): drop leading and trailing characters of the set.
StripChars(s, chars) ==
    Span(s, {i \in DOMAIN s : s[i] \notin chars})

\* str.strip()
Strip(s) ==
    StripChars(s, {" ", "\n", "\t"})

----------------------------------------------------------------------------
(* backend/utils/helpers.py: platform detection.                           *)

FragYoutubeCom ==
    <<"y", "o", "u", "t", "u", "b", "e", ".", "c", "o", "m">>

FragYoutuBe ==
    <<"y", "o", "u", "t", "u", ".", "b", "e">>

FragGithubCom ==
    <<"g", "i", "t", "h", "u", "b", ".", "c", "o", "m">>

FragInstagramCom ==
    <<"i", "n", "s", "t", "a", "g", "r", "a", "m", ".", "c", "o", "m">>

FragInstagrAm ==
    <<"i", "n", "s", "t", "a", "g", "r", ".", "a", "m">>

\* class PlatformType
PlatformType ==
    {"youtube", "github", "instagram", "unknown"}

\* The fragment tests with the GitHub test placed before the YouTube one.
platform_of_github_first(u) ==
    IF Contains(FragGithubCom, u) THEN "github"
    ELSE IF Contains(FragYoutubeCom, u) \/ Contains(FragYoutuBe, u)
    THEN "youtube"
    ELSE IF Contains(FragInstagramCom, u) \/ Contains(FragInstagrAm, u)
    THEN "instagram"
    ELSE "unknown"

\* The fragment tests of detect_platform on the normalized URL u.
platform_of(u) ==
    IF Contains(FragYoutubeCom, u) \/ Contains(FragYoutuBe, u)
    THEN "youtube"
    ELSE IF Contains(FragGithubCom, u) THEN "github"
    ELSE IF Contains(FragInstagramCom, u) \/ Contains(FragInstagrAm, u)
    THEN "instagram"
    ELSE "unknown"

\* def detect_platform(url)
detect_platform(url) ==
    platform_of(Strip(Lower(url)))

----------------------------------------------------------------------------
(* The URLs submitted to analyze(): every platform, with handle, video,    *)
(* channel and legacy-user paths, reserved path segments, missing          *)
(* identifiers, upper-case hosts, several platforms in one URL, and URLs   *)
(* of no known platform.                                                   *)

UrlYtHandle ==
    <<"h", "t", "t", "p", "s", ":", "/", "/", "w", "w", "w", ".", "y", "o",
    "u", "t", "u", "b", "e", ".", "c", "o", "m", "/", "@", "m", "k", "b",
    "h", "d">>

UrlYtVideo ==
    <<"h", "t", "t", "p", "s", ":", "/", "/", "y", "o", "u", "t", "u", ".",
    "b", "e", "/", "d", "Q", "w", "4", "w", "9", "W", "g", "X", "c", "Q">>

UrlYtChannel ==
    <<"h", "t", "t", "p", "s", ":", "/", "/", "w", "w", "w", ".", "y", "o",
    "u", "t", "u", "b", "e", ".", "c", "o", "m", "/", "c", "h", "a", "n",
    "n", "e", "l", "/", "U", "C", "1", "2">>

UrlYtUser ==
    <<"h", "t", "t", "p", ":", "/", "/", "y", "o", "u", "t", "u", "b", "e",
    ".", "c", "o", "m", "/", "u", "s", "e", "r", "/", "d", "e", "v">>

UrlYtHome ==
    <<"h", "t", "t", "p", "s", ":", "/", "/", "w", "w", "w", ".", "y", "o",
    "u", "t", "u", "b", "e", ".", "c", "o", "m", "/">>

UrlYtUpper ==
    <<"H", "T", "T", "P", "S", ":", "/", "/", "W", "W", "W", ".", "Y", "O",
    "U", "T", "U", "B", "E", ".", "C", "O", "M", "/", "@", "M", "K", "B",
    "H", "D">>

UrlYtAndGithub ==
    <<"y", "o", "u", "t", "u", "b", "e", ".", "c", "o", "m", "/", "@", "d",
    "e", "v", "?", "r", "e", "f", "=", "g", "i", "t", "h", "u", "b", ".",
    "c", "o", "m">>

UrlGhUser ==
    <<"h", "t", "t", "p", "s", ":", "/", "/", "g", "i", "t", "h", "u", "b",
    ".", "c", "o", "m", "/", "t", "o", "r", "v", "a", "l", "d", "s">>

UrlGhRepo ==
    <<"h", "t", "t", "p", "s", ":", "/", "/", "g", "i", "t", "h", "u", "b",
    ".", "c", "o", "m", "/", "d", "e", "v", "_", "1", "/", "r", "e", "p",
    "o">>

UrlGhReserved ==
    <<"h", "t", "t", "p", "s", ":", "/", "/", "g", "i", "t", "h", "u", "b",
    ".", "c", "o", "m", "/", "f", "e", "a", "t", "u", "r", "e", "s">>

UrlGhHome ==
    <<"h", "t", "t", "p", "s", ":", "/", "/", "g", "i", "t", "h", "u", "b",
    ".", "c", "o", "m", "/">>

UrlGhUpper ==
    <<"h", "t", "t", "p", ":", "/", "/", "G", "i", "t", "H", "u", "b", ".",
    "c", "o", "m", "/", "D", "e", "v">>

UrlGhAndYoutube ==
    <<"h", "t", "t", "p", "s", ":", "/", "/", "g", "i", "t", "h", "u", "b",
    ".", "c", "o", "m", "/", "d", "e", "v", "?", "t", "a", "b", "=", "y",
    "o", "u", "t", "u", ".", "b", "e">>

UrlGhAndInstagram ==
    <<"g", "i", "t", "h", "u", "b", ".", "c", "o", "m", "/", "i", "n", "s",
    "t", "a", "g", "r", "a", "m", ".", "c", "o", "m">>

UrlIgUser ==
    <<"h", "t", "t", "p", "s", ":", "/", "/", "w", "w", "w", ".", "i", "n",
    "s", "t", "a", "g", "r", "a", "m", ".", "c", "o", "m", "/", "m", "k",
    "b", "h", "d", "/">>

UrlIgShort ==
    <<"h", "t", "t", "p", "s", ":", "/", "/", "i", "n", "s", "t", "a", "g",
    "r", ".", "a", "m", "/", "s", "o", "m", "e", "_", "u", "s", "e", "r">>

UrlIgPost ==
    <<"h", "t", "t", "p", "s", ":", "/", "/", "i", "n", "s", "t", "a", "g",
    "r", "a", "m", ".", "c", "o", "m", "/", "p", "/", "a", "b", "c">>

UrlIgHome ==
    <<"h", "t", "t", "p", "s", ":", "/", "/", "w", "w", "w", ".", "i", "n",
    "s", "t", "a", "g", "r", "a", "m", ".", "c", "o", "m", "/">>

UrlIgUpper ==
    <<"h", "t", "t", "p", "s", ":", "/", "/", "I", "N", "S", "T", "A", "G",
    "R", "A", "M", ".", "c", "o", "m", "/", "D", "e", "v">>

UrlTwitter ==
    <<"h", "t", "t", "p", "s", ":", "/", "/", "t", "w", "i", "t", "t", "e",
    "r", ".", "c", "o", "m", "/", "u", "s", "e", "r">>

UrlNoDot ==
    <<"h", "t", "t", "p", "s", ":", "/", "/", "e", "x", "a", "m", "p", "l",
    "e", ".", "c", "o", "m", "/", "y", "o", "u", "t", "u", "b", "e">>

UrlEmpty ==
    <<>>

Urls ==
    {UrlYtHandle, UrlYtVideo, UrlYtChannel, UrlYtUser, UrlYtHome, UrlYtUpper,
     UrlYtAndGithub, UrlGhUser, UrlGhRepo, UrlGhReserved, UrlGhHome,
     UrlGhUpper, UrlGhAndYoutube, UrlGhAndInstagram, UrlIgUser, UrlIgShort,
     UrlIgPost, UrlIgHome, UrlIgUpper, UrlTwitter, UrlNoDot, UrlEmpty}

----------------------------------------------------------------------------
(* Optional values (Python None) and regular-expression search.            *)

None ==
    [isNone |-> TRUE]

Some(v) ==
    [isNone |-> FALSE, val |-> v]

\* Python truthiness of an optional text: None and "" are both falsy.
Truthy(opt) ==
    ~opt.isNone /\ opt.val # <<>>

\* The character class [a-zA-Z0-9_-] of the URL patterns.
IsIdChar(c) ==
    c \in Range(UpperLetters) \cup Range(LowerLetters) \cup Range(Digits)
          \cup {"_", "-"}

\* The character class [^/?] of the Instagram patterns.
IsNotSlashOrQuery(c) ==
    c \notin {"/", "?"}

\* Membership of c in a character class of the patterns: "id" is
\* [a-zA-Z0-9_-], "segment" is [^/?].
InClass(class, c) ==
    IF class = "id" THEN IsIdChar(c) ELSE IsNotSlashOrQuery(c)

\* Whether the k characters of s from position start on are all in the class.
IsRun(s, start, k, class) ==
    /\ start + k - 1 <= Len(s)
    /\ \A j \in 1..k : InClass(class, s[start + j - 1])

Min(S) ==
    CHOOSE x \in S : \A y \in S : x <= y

Max(S) ==
    CHOOSE x \in S : \A y \in S : y <= x

\* Length of the group of  ([class]+)follow  or  ([class]{exact})follow
\* matched at start (exact = 0 stands for the greedy +); 0 when it does not
\* match there.
GroupLen(s, start, class, exact, follow) ==
    Max({0} \cup {k \in IF exact > 0 THEN {exact} ELSE 1..Len(s) :
                    /\ IsRun(s, start, k, class)
                    /\ MatchesAt(follow, s, start + k)})

\* The alternatives p of  (?:p1|p2|..)(group)follow  that match s at i.
Alternatives(prefixes, s, i, class, exact, follow) ==
    {p \in DOMAIN prefixes :
        /\ MatchesAt(prefixes[p], s, i)
        /\ GroupLen(s, i + Len(prefixes[p]), class, exact, follow) > 0}

\* The positions of s at which the pattern matches.
MatchPositions(prefixes, s, class, exact, follow) ==
    {i \in 1..Len(s) :
        Alternatives(prefixes, s, i, class, exact, follow) # {}}

\* The group of the match of alternative p at position i.
GroupOf(prefixes, s, i, p, class, exact, follow) ==
    SubSeq(s, i + Len(prefixes[p]),
           i + Len(prefixes[p])
             + GroupLen(s, i + Len(prefixes[p]), class, exact, follow) - 1)

\* The group of the match at position i, alternatives tried in order.
GroupAt(prefixes, s, i, class, exact, follow) ==
    GroupOf(prefixes, s, i,
            Min(Alternatives(prefixes, s, i, class, exact, follow)),
            class, exact, follow)

\* The group of the leftmost of the match positions, None when there is none.
LeftmostGroup(positions, prefixes, s, class, exact, follow) ==
    IF positions = {} THEN None
    ELSE Some(GroupAt(prefixes, s, Min(positions), class, exact, follow))

\* re.search(r'(?:p1|p2|..)(group)follow', s).group(1), None without a match.
ReSearch(prefixes, s, class, exact, follow) ==
    LeftmostGroup(MatchPositions(prefixes, s, class, exact, follow),
                  prefixes, s, class, exact, follow)

PatGithubCom ==
    <<"g", "i", "t", "h", "u", "b", ".", "c", "o", "m", "/">>

PatInstagramCom ==
    <<"i", "n", "s", "t", "a", "g", "r", "a", "m", ".", "c", "o", "m", "/">>

PatInstagrAm ==
    <<"i", "n", "s", "t", "a", "g", "r", ".", "a", "m", "/">>

PatYtChannel ==
    <<"y", "o", "u", "t", "u", "b", "e", ".", "c", "o", "m", "/", "c", "h",
    "a", "n", "n", "e", "l", "/">>

PatYtHandle ==
    <<"y", "o", "u", "t", "u", "b", "e", ".", "c", "o", "m", "/", "@">>

PatYtC ==
    <<"y", "o", "u", "t", "u", "b", "e", ".", "c", "o", "m", "/", "c", "/">>

PatYtUser ==
    <<"y", "o", "u", "t", "u", "b", "e", ".", "c", "o", "m", "/", "u", "s",
    "e", "r", "/">>

PatYtWatch ==
    <<"y", "o", "u", "t", "u", "b", "e", ".", "c", "o", "m", "/", "w", "a",
    "t", "c", "h", "?", "v", "=">>

PatYtShort ==
    <<"y", "o", "u", "t", "u", ".", "b", "e", "/">>

PatYtEmbed ==
    <<"y", "o", "u", "t", "u", "b", "e", ".", "c", "o", "m", "/", "e", "m",
    "b", "e", "d", "/">>

PatYtV ==
    <<"y", "o", "u", "t", "u", "b", "e", ".", "c", "o", "m", "/", "v", "/">>

SegFeatures ==
    <<"f", "e", "a", "t", "u", "r", "e", "s">>

SegPricing ==
    <<"p", "r", "i", "c", "i", "n", "g">>

SegExplore ==
    <<"e", "x", "p", "l", "o", "r", "e">>

SegTopics ==
    <<"t", "o", "p", "i", "c", "s">>

SegCollections ==
    <<"c", "o", "l", "l", "e", "c", "t", "i", "o", "n", "s">>

SegP ==
    <<"p">>

SegReel ==
    <<"r", "e", "e", "l">>

SegTv ==
    <<"t", "v">>

SegAccounts ==
    <<"a", "c", "c", "o", "u", "n", "t", "s">>

\* Length of a YouTube video id in the video patterns ({11}).
VideoIdLen ==
    11

\* The first of two matches that is present and not a reserved segment.
FirstAccepted(m1, m2, reserved) ==
    IF ~m1.isNone /\ m1.val \notin reserved THEN m1
    ELSE IF ~m2.isNone /\ m2.val \notin reserved THEN m2
    ELSE None

\* GitHubAPI.extract_username_from_url
extract_username_from_url(url) ==
    FirstAccepted(ReSearch(<<PatGithubCom>>, url, "id", 0, <<>>),
                  ReSearch(<<PatGithubCom>>, url, "id", 0, <<"/">>),
                  {SegFeatures, SegPricing, SegExplore, SegTopics,
                   SegCollections})

\* InstagramAPI.extract_username
extract_username(url) ==
    FirstAccepted(
        ReSearch(<<PatInstagramCom>>, url, "segment", 0, <<>>),
        ReSearch(<<PatInstagrAm>>, url, "segment", 0, <<>>),
        {SegP, SegReel, SegTv, SegExplore, SegAccounts})

\* The first of the matches that is present.
FirstMatch(m1, m2, m3) ==
    IF ~m1.isNone THEN m1 ELSE IF ~m2.isNone THEN m2 ELSE m3

\* YouTubeAPI.extract_video_id_from_url
extract_video_id_from_url(url) ==
    FirstMatch(
        ReSearch(<<PatYtWatch, PatYtShort>>, url, "id", VideoIdLen, <<>>),
        ReSearch(<<PatYtEmbed>>, url, "id", VideoIdLen, <<>>),
        ReSearch(<<PatYtV>>, url, "id", VideoIdLen, <<>>))

\* The pattern of YouTubeAPI.extract_channel_id_from_url that matches url:
\* "channel" (a channel id, used as is), "handle" or "username" (resolved
\* by a search call), or "none".
channel_pattern(url) ==
    IF ~ReSearch(<<PatYtChannel>>, url, "id", 0, <<>>).isNone
    THEN "channel"
    ELSE IF ~ReSearch(<<PatYtHandle>>, url, "id", 0, <<>>).isNone
    THEN "handle"
    ELSE IF ~ReSearch(<<PatYtC, PatYtUser>>, url, "id", 0, <<>>).isNone
    THEN "username"
    ELSE "none"

----------------------------------------------------------------------------
(* Number formatting of the platform clients.                              *)

RECURSIVE IntToText(_)
\* str(n) for n >= 0.
IntToText(n) ==
    IF n < 10 THEN <<Digits[n + 1]>>
    ELSE IntToText(n \div 10) \o <<Digits[(n % 10) + 1]>>

\* f"{count / unit:.1f}" for a unit that is a power of ten >= 10: the
\* quotient rounded to one decimal place.  On an exact tie Python rounds the
\* binary double nearest to the quotient; the counts of this model are not
\* ties, and a tie is rounded to the even tenth here.
OneDecimal(count, unit) ==
    LET d == unit \div 10
        q == count \div d
        r == count % d
        tenths == IF 2 * r > d THEN q + 1
                  ELSE IF 2 * r < d THEN q
                  ELSE IF q % 2 = 0 THEN q ELSE q + 1
    IN  IntToText(tenths \div 10) \o <<".">> \o IntToText(tenths % 10)

Million ==
    1000000

Thousand ==
    1000

\* YouTubeAPI._format_subscriber_count
format_subscriber_count(count) ==
    IF count >= Million THEN OneDecimal(count, Million) \o <<"M">>
    ELSE IF count >= Thousand THEN OneDecimal(count, Thousand) \o <<"K">>
    ELSE IntToText(count)

\* InstagramAPI._format_count
format_count(count) ==
    IF count >= Million THEN OneDecimal(count, Million) \o <<"M">>
    ELSE IF count >= Thousand THEN OneDecimal(count, Thousand) \o <<"K">>
    ELSE IntToText(count)

Billion ==
    1000000000

\* helpers.format_large_number
format_large_number(num) ==
    IF num >= Billion THEN OneDecimal(num, Billion) \o <<"B">>
    ELSE IF num >= Million THEN OneDecimal(num, Million) \o <<"M">>
    ELSE IF num >= Thousand THEN OneDecimal(num, Thousand) \o <<"K">>
    ELSE IntToText(num)

----------------------------------------------------------------------------
(* backend/utils/helpers.py: MockDataGenerator.youtube_mock.               *)

MockYtTitle ==
    <<"D", "e", "m", "o", " ", "T", "e", "c", "h", " ", "C", "r", "e", "a",
    "t", "o", "r">>

MockYtSubscribers ==
    <<"1", ".", "5", "M">>

MockYtDescription ==
    <<"T", "e", "c", "h", " ", "r", "e", "v", "i", "e", "w", "s", ",", " ",
    "c", "o", "d", "i", "n", "g", " ", "t", "u", "t", "o", "r", "i", "a",
    "l", "s", ",", " ", "a", "n", "d", " ", "d", "e", "v", "e", "l", "o",
    "p", "e", "r", " ", "c", "o", "n", "t", "e", "n", "t">>

MockYtVideo1 ==
    <<"B", "u", "i", "l", "d", "i", "n", "g", " ", "a", " ", "3", "D", " ",
    "P", "o", "r", "t", "f", "o", "l", "i", "o", " ", "w", "i", "t", "h",
    " ", "R", "e", "a", "c", "t", " ", "T", "h", "r", "e", "e", " ", "F",
    "i", "b", "e", "r">>

MockYtVideo2 ==
    <<"W", "h", "y", " ", "I", " ", "S", "w", "i", "t", "c", "h", "e", "d",
    " ", "t", "o", " ", "N", "e", "o", "v", "i", "m", " ", "(", "D", "e",
    "v", "e", "l", "o", "p", "e", "r", " ", "S", "e", "t", "u", "p", " ",
    "T", "o", "u", "r", ")">>

MockYtVideo3 ==
    <<"1", "0", " ", "G", "i", "t", "H", "u", "b", " ", "P", "r", "o", "j",
    "e", "c", "t", "s", " ", "T", "h", "a", "t", " ", "C", "h", "a", "n",
    "g", "e", "d", " ", "M", "y", " ", "C", "a", "r", "e", "e", "r">>

MockYtVideo4 ==
    <<"R", "e", "a", "l", "-", "t", "i", "m", "e", " ", "C", "o", "l", "l",
    "a", "b", "o", "r", "a", "t", "i", "o", "n", " ", "w", "i", "t", "h",
    " ", "W", "e", "b", "S", "o", "c", "k", "e", "t", "s">>

MockYtVideo5 ==
    <<"M", "y", " ", "H", "o", "n", "e", "s", "t", " ", "R", "e", "v", "i",
    "e", "w", " ", "o", "f", " ", "t", "h", "e", " ", "M", "4", " ", "M",
    "a", "c", "B", "o", "o", "k", " ", "P", "r", "o">>

\* MockDataGenerator.youtube_mock(): the fields the pipeline reads.
youtube_mock ==
    [title |-> MockYtTitle,
     subscribers |-> MockYtSubscribers,
     subscriber_count_raw |-> 1500000,
     description |-> MockYtDescription,
     video_titles |-> <<MockYtVideo1, MockYtVideo2, MockYtVideo3,
                        MockYtVideo4, MockYtVideo5>>]

----------------------------------------------------------------------------
(* What the platform APIs answer.  The channels, videos, profiles,         *)
(* repositories and posts below are the answers an outbound call may       *)
(* return; a call may also fail or find nothing.                           *)

\* Bounds on the lengths of the lists an API call returns.
MaxVideos ==
    3

MaxRepos ==
    3

MaxPosts ==
    3

\* The sequences of distinct elements of pool of length at most n.
ListsOf(pool, n) ==
    UNION {{s \in [1..k -> pool] : \A i, j \in 1..k : i # j => s[i] # s[j]}
           : k \in 0..n}

\* sorted(list, key=..., reverse=True): stable, descending by keys[i].
SortedDescBy(list, keys) ==
    LET pos(i) == 1 + Cardinality({j \in DOMAIN list :
                        \/ keys[j] > keys[i]
                        \/ keys[j] = keys[i] /\ j < i})
    IN  [p \in DOMAIN list |-> list[CHOOSE i \in DOMAIN list : pos(i) = p]]

TxtChanA ==
    <<"C", "h", "a", "n", " ", "A">>

TxtChanADesc ==
    <<"A", "l", "l", " ", "a", "b", "o", "u", "t", " ", "c", "o", "d", "e">>

TxtChanB ==
    <<"B", " ", "C", "h", "a", "n", "n", "e", "l">>

TxtVid1 ==
    <<"v", "i", "d", "1">>

TxtVid1Title ==
    <<"I", "n", "t", "r", "o">>

TxtVid1Desc ==
    <<"W", "e", "l", "c", "o", "m", "e">>

TxtVid2 ==
    <<"v", "i", "d", "2">>

TxtVid2Title ==
    <<"D", "e", "e", "p", " ", "D", "i", "v", "e">>

TxtVid3 ==
    <<"v", "i", "d", "3">>

TxtVid3Title ==
    <<"Q", " ", "a", "n", "d", " ", "A">>

\* Length of the description slice description[:200].
DescriptionMax ==
    200

\* Length of the longest video description.
LongDescriptionLen ==
    203

\* A description longer than the slice: the characters past the slice
\* occur nowhere else.
TxtVid3Desc ==
    [i \in 1..LongDescriptionLen |-> IF i <= DescriptionMax THEN "d" ELSE "~"]

\* channels().list items: snippet title, description and subscriberCount.
ChannelPool ==
    {[title |-> TxtChanA, description |-> TxtChanADesc,
      subscriberCount |-> 1500],
     [title |-> TxtChanB, description |-> <<>>,
      subscriberCount |-> 2400000],
     [title |-> TxtChanB, description |-> <<>>,
      subscriberCount |-> 1500000000]}

\* videos().list items as get_top_videos returns them (the fields the
\* pipeline reads).
VideoPool ==
    {[video_id |-> TxtVid1, title |-> TxtVid1Title,
      description |-> TxtVid1Desc, view_count |-> 900],
     [video_id |-> TxtVid2, title |-> TxtVid2Title,
      description |-> <<>>, view_count |-> 500],
     [video_id |-> TxtVid3, title |-> TxtVid3Title,
      description |-> TxtVid3Desc, view_count |-> 500]}

\* The answers of the YouTube Data API to one analyze_url call: whether the
\* handle/username search or the video lookup finds a channel id, the
\* channel the channels().list call returns (None: no item, or the call
\* raised), and the list get_top_videos returns ([] when it raised).
YouTubeAnswers ==
    {[lookup |-> FALSE, channel |-> None, videos |-> <<>>]}
    \cup {[lookup |-> TRUE, channel |-> None, videos |-> <<>>]}
    \cup {[lookup |-> TRUE, channel |-> Some(c), videos |-> vs] :
            c \in ChannelPool, vs \in ListsOf(VideoPool, MaxVideos)}

\* YouTubeAPI.get_channel_stats on a found channel.
get_channel_stats(c) ==
    [title |-> c.title,
     description |-> c.description,
     subscribers |-> format_subscriber_count(c.subscriberCount),
     subscriber_count_raw |-> c.subscriberCount]

\* Whether YouTubeAPI.analyze_url obtains a channel id: from the video of a
\* video URL (get_channel_from_video), from the URL itself (channel path),
\* or by a search (handle, /c/ and /user/ paths).
resolves_channel_id(url, ans) ==
    IF ~extract_video_id_from_url(url).isNone THEN ans.lookup
    ELSE CASE channel_pattern(url) = "channel" -> TRUE
           [] channel_pattern(url) \in {"handle", "username"} -> ans.lookup
           [] OTHER -> FALSE

\* YouTubeAPI.analyze_url
youtube_analyze_url(url, ans) ==
    IF ~resolves_channel_id(url, ans) THEN None
    ELSE IF ans.channel.isNone THEN None
    ELSE Some([top_videos |-> ans.videos] @@ get_channel_stats(ans.channel.val))

TxtGhName ==
    <<"D", "e", "v", " ", "N", "a", "m", "e">>

TxtGhBio ==
    <<"B", "u", "i", "l", "d", "s", " ", "t", "o", "o", "l", "s">>

TxtRepoAlpha ==
    <<"a", "l", "p", "h", "a">>

TxtRepoAlphaDesc ==
    <<"A", "l", "p", "h", "a", " ", "l", "i", "b">>

TxtRepoBeta ==
    <<"b", "e", "t", "a">>

TxtRepoGamma ==
    <<"g", "a", "m", "m", "a">>

TxtRepoGammaDesc ==
    <<"A", " ", "f", "o", "r", "k">>

TxtRepoDelta ==
    <<"d", "e", "l", "t", "a">>

TxtRepoDeltaDesc ==
    <<"D", "e", "l", "t", "a", " ", "t", "o", "o", "l">>

\* GET /users/{username}: the profiles the API may return for username
\* (name and bio are null for a user who set none).
GitHubProfiles(username) ==
    {[username |-> username, name |-> Some(TxtGhName),
      bio |-> Some(TxtGhBio), followers |-> 1500],
     [username |-> username, name |-> None, bio |-> None, followers |-> 7]}

\* GET /users/{username}/repos items as get_user_repos returns them.
RepoPool ==
    {[name |-> TxtRepoAlpha, description |-> Some(TxtRepoAlphaDesc),
      stars |-> 50, is_fork |-> FALSE],
     [name |-> TxtRepoBeta, description |-> None,
      stars |-> 50, is_fork |-> FALSE],
     [name |-> TxtRepoGamma, description |-> Some(TxtRepoGammaDesc),
      stars |-> 90, is_fork |-> TRUE],
     [name |-> TxtRepoDelta, description |-> Some(TxtRepoDeltaDesc),
      stars |-> 70, is_fork |-> FALSE]}

TxtRepoEpsilon ==
    <<"e", "p", "s", "i", "l", "o", "n">>

TxtRepoZeta ==
    <<"z", "e", "t", "a">>

TxtRepoEta ==
    <<"e", "t", "a">>

\* A repository list longer than the client's top list: six repositories
\* of the user's own and one fork, with equal star counts among them.
LongRepoList ==
    <<[name |-> TxtRepoBeta, description |-> None,
       stars |-> 50, is_fork |-> FALSE],
      [name |-> TxtRepoGamma, description |-> Some(TxtRepoGammaDesc),
       stars |-> 90, is_fork |-> TRUE],
      [name |-> TxtRepoEpsilon, description |-> None,
       stars |-> 10, is_fork |-> FALSE],
      [name |-> TxtRepoAlpha, description |-> Some(TxtRepoAlphaDesc),
       stars |-> 50, is_fork |-> FALSE],
      [name |-> TxtRepoDelta, description |-> Some(TxtRepoDeltaDesc),
       stars |-> 70, is_fork |-> FALSE],
      [name |-> TxtRepoZeta, description |-> None,
       stars |-> 70, is_fork |-> FALSE],
      [name |-> TxtRepoEta, description |-> None,
       stars |-> 50, is_fork |-> FALSE]>>

\* The answers of the GitHub API to one analyze_url call for username: the
\* profile (None: the call failed or the user does not exist) and the
\* repository list ([] when the call failed).
GitHubAnswers(username) ==
    {[profile |-> None, repos |-> <<>>]}
    \cup {[profile |-> Some(p), repos |-> rs] :
            p \in GitHubProfiles(username),
            rs \in ListsOf(RepoPool, MaxRepos) \cup {LongRepoList}}

\* The elements of list that satisfy Keep, in order.
RECURSIVE FilterSeq(_, _)
FilterSeq(list, keep) ==
    IF list = <<>> THEN <<>>
    ELSE (IF keep[1] THEN <<Head(list)>> ELSE <<>>)
         \o FilterSeq(Tail(list), Tail(keep))

\* max_results of get_top_repos_by_stars / get_top_videos in analyze_url.
ClientTopN ==
    5

\* sorted(original_repos, key=lambda x: x['stars'], reverse=True)
sorted_by_stars(original_repos) ==
    SortedDescBy(original_repos,
                 [i \in DOMAIN original_repos |-> original_repos[i].stars])

\* A get_top_repos_by_stars that ranks forks with the rest.
get_top_repos_with_forks(repos, max_results) ==
    Prefix(sorted_by_stars(repos), max_results)

\* GitHubAPI.get_top_repos_by_stars
get_top_repos_by_stars(repos, max_results) ==
    Prefix(sorted_by_stars(
               FilterSeq(repos, [i \in DOMAIN repos |-> ~repos[i].is_fork])),
           max_results)

\* GitHubAPI.analyze_url (the README, language and activity calls it also
\* makes add fields the pipeline never reads).
github_analyze_url(url, ans) ==
    IF extract_username_from_url(url).isNone THEN None
    ELSE IF ans.profile.isNone THEN None
    ELSE Some([top_repos |-> get_top_repos_by_stars(ans.repos, ClientTopN)]
              @@ ans.profile.val)

----------------------------------------------------------------------------
(* backend/utils/instagram_api.py.  A character outside ASCII is written   *)
(* as one element naming its code point.                                   *)

TxtMkbhd ==
    <<"m", "k", "b", "h", "d">>

TxtMkbhdName ==
    <<"M", "a", "r", "q", "u", "e", "s", " ", "B", "r", "o", "w", "n", "l",
    "e", "e">>

TxtMkbhdFollowers ==
    <<"1", "9", ".", "2", "M">>

TxtMkbhdBio ==
    <<"T", "e", "c", "h", " ", "r", "e", "v", "i", "e", "w", "s", " ", "a",
    "n", "d", " ", "u", "n", "b", "o", "x", "i", "n", "g", "s", " ",
    "U+1F4F1", "U+26A1", "U+FE0F", "\n", "Y", "o", "u", "T", "u", "b", "e",
    ":", " ", "M", "K", "B", "H", "D", "\n", "P", "o", "d", "c", "a", "s",
    "t", ":", " ", "W", "a", "v", "e", "f", "o", "r", "m">>

TxtMkbhdPost1 ==
    <<"T", "h", "e", " ", "n", "e", "w", " ", "i", "P", "h", "o", "n", "e",
    " ", "1", "6", " ", "P", "r", "o", " ", "M", "a", "x", " ", "i", "s",
    " ", "h", "e", "r", "e", "!", " ", "F", "u", "l", "l", " ", "r", "e",
    "v", "i", "e", "w", " ", "o", "n", " ", "Y", "o", "u", "T", "u", "b",
    "e", " ", "U+1F4F1">>

TxtMkbhdPost2 ==
    <<"B", "e", "h", "i", "n", "d", " ", "t", "h", "e", " ", "s", "c", "e",
    "n", "e", "s", " ", "o", "f", " ", "t", "h", "e", " ", "s", "t", "u",
    "d", "i", "o", " ", "s", "e", "t", "u", "p", " ", "U+1F3A5">>

TxtMkbhdPost3 ==
    <<"T", "e", "s", "t", "i", "n", "g", " ", "o", "u", "t", " ", "t", "h",
    "e", " ", "n", "e", "w", " ", "c", "a", "m", "e", "r", "a", " ", "t",
    "e", "c", "h", " ", "U+1F4F8">>

TxtMkbhdUrl1 ==
    <<"h", "t", "t", "p", "s", ":", "/", "/", "i", "n", "s", "t", "a", "g",
    "r", "a", "m", ".", "c", "o", "m", "/", "p", "/", "s", "a", "m", "p",
    "l", "e", "1">>

TxtMkbhdUrl2 ==
    <<"h", "t", "t", "p", "s", ":", "/", "/", "i", "n", "s", "t", "a", "g",
    "r", "a", "m", ".", "c", "o", "m", "/", "p", "/", "s", "a", "m", "p",
    "l", "e", "2">>

TxtMkbhdUrl3 ==
    <<"h", "t", "t", "p", "s", ":", "/", "/", "i", "n", "s", "t", "a", "g",
    "r", "a", "m", ".", "c", "o", "m", "/", "p", "/", "s", "a", "m", "p",
    "l", "e", "3">>

TxtGenericFollowers ==
    <<"1", "2", "5", "K">>

TxtGenericBio ==
    <<"C", "r", "e", "a", "t", "o", "r", " ", "U+2022", " ", "C", "o", "n",
    "t", "e", "n", "t", " ", "e", "n", "t", "h", "u", "s", "i", "a", "s",
    "t", "\n", "F", "o", "l", "l", "o", "w", " ", "f", "o", "r", " ", "m",
    "o", "r", "e", "!">>

TxtGenericPost1 ==
    <<"L", "a", "t", "e", "s", "t", " ", "c", "o", "n", "t", "e", "n", "t",
    " ", "c", "r", "e", "a", "t", "i", "o", "n", " ", "s", "e", "t", "u",
    "p", " ", "U+1F3AC">>

TxtGenericPost2 ==
    <<"B", "e", "h", "i", "n", "d", " ", "t", "h", "e", " ", "s", "c", "e",
    "n", "e", "s", " ", "U+1F4F8">>

TxtGenericUrl ==
    <<"h", "t", "t", "p", "s", ":", "/", "/", "i", "n", "s", "t", "a", "g",
    "r", "a", "m", ".", "c", "o", "m", "/", "p", "/">>

TxtImage ==
    <<"I", "M", "A", "G", "E">>

TxtVideo ==
    <<"V", "I", "D", "E", "O">>

TxtNoCaption ==
    <<"N", "o", " ", "c", "a", "p", "t", "i", "o", "n">>

TxtUntitledPost ==
    <<"U", "n", "t", "i", "t", "l", "e", "d", " ", "P", "o", "s", "t">>

TxtIgName ==
    <<"I", "n", "s", "t", "a", " ", "N", "a", "m", "e">>

TxtIgBio ==
    <<"P", "h", "o", "t", "o", "s", " ", "d", "a", "i", "l", "y">>

TxtPostA ==
    <<"S", "u", "n", "s", "e", "t">>

TxtPostAUrl ==
    <<"h", "t", "t", "p", "s", ":", "/", "/", "w", "w", "w", ".", "i", "n",
    "s", "t", "a", "g", "r", "a", "m", ".", "c", "o", "m", "/", "p", "/",
    "a", "/">>

TxtPostBUrl ==
    <<"h", "t", "t", "p", "s", ":", "/", "/", "w", "w", "w", ".", "i", "n",
    "s", "t", "a", "g", "r", "a", "m", ".", "c", "o", "m", "/", "p", "/",
    "b", "/">>

TxtPostC ==
    <<"L", "a", "u", "n", "c", "h", " ", "d", "a", "y">>

TxtPostCUrl ==
    <<"h", "t", "t", "p", "s", ":", "/", "/", "w", "w", "w", ".", "i", "n",
    "s", "t", "a", "g", "r", "a", "m", ".", "c", "o", "m", "/", "p", "/",
    "c", "/">>

IsLetter(c) ==
    c \in Range(UpperLetters) \cup Range(LowerLetters)

\* str.replace(old, new) for single characters.
ReplaceChar(s, old, new) ==
    [i \in DOMAIN s |-> IF s[i] = old THEN new ELSE s[i]]

\* str.title(): a letter that follows no letter is upper-cased, every other
\* letter is lower-cased.
Title(s) ==
    [i \in DOMAIN s |->
        IF i = 1 \/ ~IsLetter(s[i - 1]) THEN UpperChar(s[i])
        ELSE LowerChar(s[i])]

\* Length of the caption slice caption[:100].
CaptionMax ==
    100

\* InstagramAPI._generate_mock_data
generate_mock_data(username) ==
    IF Lower(username) = TxtMkbhd
    THEN [username |-> Some(TxtMkbhd),
          name |-> Some(TxtMkbhdName),
          followers |-> TxtMkbhdFollowers,
          bio |-> TxtMkbhdBio,
          top_posts |->
            <<[caption |-> TxtMkbhdPost1, type |-> TxtImage,
               likes |-> 892000, comments |-> 12400, url |-> TxtMkbhdUrl1],
              [caption |-> TxtMkbhdPost2, type |-> TxtVideo,
               likes |-> 756000, comments |-> 9800, url |-> TxtMkbhdUrl2],
              [caption |-> TxtMkbhdPost3, type |-> TxtImage,
               likes |-> 634000, comments |-> 7200, url |-> TxtMkbhdUrl3]>>]
    ELSE [username |-> Some(username),
          name |-> Some(Title(ReplaceChar(username, "_", " "))),
          followers |-> TxtGenericFollowers,
          bio |-> TxtGenericBio,
          top_posts |->
            <<[caption |-> TxtGenericPost1, type |-> TxtImage,
               likes |-> 8900, comments |-> 234,
               url |-> TxtGenericUrl \o username \o <<"1">>],
              [caption |-> TxtGenericPost2, type |-> TxtVideo,
               likes |-> 7600, comments |-> 189,
               url |-> TxtGenericUrl \o username \o <<"2">>]>>]

\* business_discovery objects the Graph API may return for username.
InstagramProfiles(username) ==
    {[username |-> Some(username), name |-> Some(TxtIgName),
      biography |-> TxtIgBio, followers_count |-> 125000],
     [username |-> Some(username), name |-> None,
      biography |-> <<>>, followers_count |-> 999]}

\* media.data items of business_discovery (caption is absent on a post
\* without one).
PostPool ==
    {[caption |-> Some(TxtPostA), media_type |-> TxtImage, like_count |-> 10,
      comments_count |-> 1, permalink |-> TxtPostAUrl],
     [caption |-> None, media_type |-> TxtVideo, like_count |-> 30,
      comments_count |-> 2, permalink |-> TxtPostBUrl],
     [caption |-> Some(TxtPostC), media_type |-> TxtImage, like_count |-> 30,
      comments_count |-> 0, permalink |-> TxtPostCUrl]}

\* The answers of the Graph API to one analyze_url call for username: the
\* business_discovery object (None: the request failed, or the response
\* holds no business_discovery) and the media list ([] when it failed).
InstagramAnswers(username) ==
    {[profile |-> None, media |-> <<>>]}
    \cup {[profile |-> Some(p), media |-> ms] :
            p \in InstagramProfiles(username),
            ms \in ListsOf(PostPool, MaxPosts)}

\* Number of top posts analyze_url keeps ([:3]).
InstagramTopN ==
    3

\* The top_posts entry analyze_url builds from a media item.
top_post(post) ==
    [caption |-> IF Truthy(post.caption)
                 THEN Prefix(post.caption.val, CaptionMax)
                 ELSE TxtNoCaption,
     type |-> post.media_type,
     likes |-> post.like_count,
     comments |-> post.comments_count,
     url |-> post.permalink]

\* sorted(media_data, key=like_count, reverse=True)
sorted_by_likes(media_data) ==
    SortedDescBy(media_data,
                 [i \in DOMAIN media_data |-> media_data[i].like_count])

\* The top_posts list analyze_url builds from the media list.
top_posts_of(media_data) ==
    [i \in 1..Len(Prefix(media_data, InstagramTopN)) |->
        top_post(sorted_by_likes(media_data)[i])]

\* The profile record analyze_url returns from live data.
live_profile(profile_data, media_data) ==
    [username |-> profile_data.username,
     name |-> IF Truthy(profile_data.name) THEN profile_data.name
              ELSE profile_data.username,
     followers |-> format_count(profile_data.followers_count),
     bio |-> profile_data.biography,
     top_posts |-> top_posts_of(media_data)]

\* An analyze_url body that answers a URL without username with mock data.
instagram_profile_lenient(username, configured, ans) ==
    IF username.isNone THEN generate_mock_data(TxtMkbhd)
    ELSE IF configured /\ ~ans.profile.isNone
    THEN live_profile(ans.profile.val, ans.media)
    ELSE generate_mock_data(username.val)

\* The body of InstagramAPI.analyze_url once the username is extracted: it
\* falls back to mock data whenever no live profile was obtained.
instagram_profile(username, configured, ans) ==
    IF username.isNone
    THEN [error |-> "Could not extract Instagram username from URL"]
    ELSE IF configured /\ ~ans.profile.isNone
    THEN live_profile(ans.profile.val, ans.media)
    ELSE generate_mock_data(username.val)

\* InstagramAPI.analyze_url
instagram_analyze_url(url, configured, ans) ==
    instagram_profile(extract_username(url), configured, ans)

----------------------------------------------------------------------------
(* backend/utils/youtube_api.py: the transcript fetcher.                   *)

\* " ".join(parts)
RECURSIVE JoinWithSpace(_)
JoinWithSpace(parts) ==
    IF parts = <<>> THEN <<>>
    ELSE IF Len(parts) = 1 THEN parts[1]
    ELSE parts[1] \o <<" ">> \o JoinWithSpace(Tail(parts))

TxtSegHello ==
    <<"H", "e", "l", "l", "o">>

TxtSegWorld ==
    <<"w", "o", "r", "l", "d">>

TxtSegHola ==
    <<"H", "o", "l", "a">>

\* Length of the transcript slice transcript[:3000].
TranscriptMax ==
    3000

\* Length of the longest transcript segment.
LongSegmentLen ==
    3001

\* A segment that alone is longer than the slice.
TxtSegLong ==
    [i \in 1..LongSegmentLen |-> Digits[(i % 10) + 1]]

\* The answers of the transcript service for one video: the segment texts
\* of the English transcript (None: the request raised), and the listing of
\* the available tracks (None: the listing raised), each track giving its
\* segment texts when fetched (None: the fetch raised).
TranscriptAnswers ==
    {[english |-> Some(<<TxtSegHello, TxtSegWorld>>), tracks |-> None],
     [english |-> None, tracks |-> None],
     [english |-> None, tracks |-> Some(<<>>)],
     [english |-> None, tracks |-> Some(<<None>>)],
     [english |-> None, tracks |-> Some(<<None, Some(<<TxtSegHola, TxtSegLong>>)>>)]}

\* A fetcher that keeps the last track that fetches.
get_video_transcript_last_track(ans) ==
    IF ~ans.english.isNone THEN Some(JoinWithSpace(ans.english.val))
    ELSE IF ans.tracks.isNone THEN None
    ELSE LET fetched == {i \in DOMAIN ans.tracks.val :
                            ~ans.tracks.val[i].isNone}
         IN  IF fetched = {} THEN None
             ELSE LET i == CHOOSE x \in fetched : \A m \in fetched : x >= m
                  IN  Some(JoinWithSpace(ans.tracks.val[i].val))

\* YouTubeAPI.get_video_transcript
get_video_transcript(ans) ==
    IF ~ans.english.isNone THEN Some(JoinWithSpace(ans.english.val))
    ELSE IF ans.tracks.isNone THEN None
    ELSE LET fetched == {i \in DOMAIN ans.tracks.val :
                            ~ans.tracks.val[i].isNone}
         IN  IF fetched = {} THEN None
             ELSE LET i == CHOOSE x \in fetched : \A m \in fetched : x <= m
                  IN  Some(JoinWithSpace(ans.tracks.val[i].val))

----------------------------------------------------------------------------
(* backend/agents/summarizer_agent.py.                                     *)

TxtUntitled ==
    <<"U", "n", "t", "i", "t", "l", "e", "d">>

TxtNoTranscript ==
    <<"[", "N", "o", " ", "t", "r", "a", "n", "s", "c", "r", "i", "p", "t",
    " ", "o", "r", " ", "d", "e", "s", "c", "r", "i", "p", "t", "i", "o",
    "n", " ", "a", "v", "a", "i", "l", "a", "b", "l", "e", "]">>

TxtVideoTitled ==
    <<"V", "i", "d", "e", "o", " ", "t", "i", "t", "l", "e", "d", " ", "'">>

TxtQuoteDash ==
    <<"'", " ", "-", " ">>

TxtNoAdditionalInfo ==
    <<"N", "o", " ", "a", "d", "d", "i", "t", "i", "o", "n", "a", "l", " ",
    "i", "n", "f", "o">>

TxtMockSummary ==
    <<"[", "M", "o", "c", "k", " ", "S", "u", "m", "m", "a", "r", "y", "]",
    " ", "V", "i", "d", "e", "o", " ", "d", "i", "s", "c", "u", "s", "s",
    "e", "s", ":", " ">>

TxtErrorSummary ==
    <<"[", "E", "r", "r", "o", "r", "]", " ", "C", "o", "u", "l", "d", " ",
    "n", "o", "t", " ", "s", "u", "m", "m", "a", "r", "i", "z", "e", ":",
    " ">>

TxtLlmSummary ==
    <<" ", " ", "C", "o", "v", "e", "r", "s", " ", "t", "h", "e", " ", "b",
    "a", "s", "i", "c", "s", ".", " ", "\n">>

\* What the generative model answers to a summarization request: it raises,
\* or returns a text.
SummarizerAnswers ==
    {[raised |-> TRUE, content |-> <<>>],
     [raised |-> FALSE, content |-> TxtLlmSummary]}

\* The transcript as the prompt of summarize_transcript carries it.
transcript_whole(transcript) ==
    transcript

transcript_excerpt(transcript) ==
    Prefix(transcript, TranscriptMax)

\* TranscriptSummarizer.summarize_transcript: the request it sends to the
\* generative model (None: it sends none), as the two values its prompt is
\* built from, and whether llm.invoke raised.
summarize_request(llm, video_title, transcript, ans) ==
    IF ~llm THEN None
    ELSE Some([video_title |-> video_title,
               transcript |-> transcript_excerpt(transcript),
               raised |-> ans.raised])

\* A summarize_transcript that does not tag a failed invocation.
summarize_transcript_untagged(llm, video_title, ans) ==
    IF ~llm THEN TxtMockSummary \o video_title
    ELSE Strip(ans.content)

\* TranscriptSummarizer.summarize_transcript
summarize_transcript(llm, video_title, ans) ==
    IF ~llm THEN TxtMockSummary \o video_title
    ELSE IF ans.raised THEN TxtErrorSummary \o video_title
    ELSE Strip(ans.content)

\* dict.get(key, default) on a record.
Get(item, key, default) ==
    IF key \in DOMAIN item THEN item[key] ELSE default

\* The summary summarize_multiple_transcripts derives for one item.
item_summary(llm, item, ans) ==
    LET title == Get(item, "title", TxtUntitled)
        transcript == Get(item, "transcript", Some(<<>>))
        description == Get(item, "description", <<>>)
    IN  IF ~Truthy(transcript) /\ description = <<>> THEN TxtNoTranscript
        ELSE IF ~Truthy(transcript)
        THEN TxtVideoTitled \o title \o TxtQuoteDash
             \o (IF description # <<>> THEN Prefix(description, DescriptionMax)
                 ELSE TxtNoAdditionalInfo)
        ELSE summarize_transcript(llm, title, ans)

\* A summarizer that sends every item to the model.
item_request_always(llm, item, ans) ==
    summarize_request(llm, Get(item, "title", TxtUntitled),
                      IF Truthy(Get(item, "transcript", Some(<<>>)))
                      THEN item.transcript.val ELSE <<>>,
                      ans)

\* The request summarize_multiple_transcripts sends for one item.
item_request(llm, item, ans) ==
    IF ~Truthy(Get(item, "transcript", Some(<<>>))) THEN None
    ELSE summarize_request(llm, Get(item, "title", TxtUntitled),
                           Get(item, "transcript", Some(<<>>)).val, ans)

\* The requests summarize_multiple_transcripts sends, item by item:
\* answers[i] is the model's answer for item i.
summarizer_requests(llm, transcripts, answers) ==
    [i \in DOMAIN transcripts |->
        item_request(llm, transcripts[i], answers[i])]

\* A batch summarizer that returns its records in reverse order.
summarize_multiple_transcripts_reversed(llm, transcripts, answers) ==
    [i \in DOMAIN transcripts |->
        [summary |-> item_summary(llm, transcripts[Len(transcripts) + 1 - i],
                                  answers[Len(transcripts) + 1 - i])]
        @@ transcripts[Len(transcripts) + 1 - i]]

\* TranscriptSummarizer.summarize_multiple_transcripts: answers[i] is the
\* model's answer for item i (read only when the model is invoked).
summarize_multiple_transcripts(llm, transcripts, answers) ==
    [i \in DOMAIN transcripts |->
        [summary |-> item_summary(llm, transcripts[i], answers[i])]
        @@ transcripts[i]]

----------------------------------------------------------------------------
(* backend/agents/creator_analyzer.py: the content characterizer.          *)

\* Positions of character c in s.
PositionsOf(c, s) ==
    {i \in DOMAIN s : s[i] = c}

\* str.split(c): the pieces between the occurrences of c.
RECURSIVE SplitOn(_, _)
SplitOn(s, c) ==
    IF PositionsOf(c, s) = {} THEN <<s>>
    ELSE <<SubSeq(s, 1, Min(PositionsOf(c, s)) - 1)>>
         \o SplitOn(SubSeq(s, Min(PositionsOf(c, s)) + 1, Len(s)), c)

\* line.split(":")[-1]: the text after the last colon.
AfterLastColon(line) ==
    IF PositionsOf(":", line) = {} THEN line
    ELSE SubSeq(line, Max(PositionsOf(":", line)) + 1, Len(line))

\* line.split(":", 1)[-1]: the text after the first colon.
AfterFirstColon(line) ==
    IF PositionsOf(":", line) = {} THEN line
    ELSE SubSeq(line, Min(PositionsOf(":", line)) + 1, Len(line))

\* The text with every * and _ removed (the four replace() calls).
RECURSIVE RemoveMarkup(_)
RemoveMarkup(s) ==
    IF s = <<>> THEN <<>>
    ELSE (IF Head(s) \in {"*", "_"} THEN <<>> ELSE <<Head(s)>>)
         \o RemoveMarkup(Tail(s))

TxtDescriptorColon ==
    <<"d", "e", "s", "c", "r", "i", "p", "t", "o", "r", ":">>

TxtSummaryColon ==
    <<"s", "u", "m", "m", "a", "r", "y", ":">>

TxtOneDot ==
    <<"1", ".">>

TxtTwoDot ==
    <<"2", ".">>

TxtCreator ==
    <<"C", "r", "e", "a", "t", "o", "r">>

TxtTechEducator ==
    <<"T", "e", "c", "h", " ", "E", "d", "u", "c", "a", "t", "o", "r">>

TxtMockStyle ==
    <<" ", "c", "r", "e", "a", "t", "e", "s", " ", "c", "o", "n", "t", "e",
    "n", "t", " ", "f", "o", "c", "u", "s", "e", "d", " ", "o", "n", " ",
    "t", "e", "c", "h", "n", "o", "l", "o", "g", "y", ",", " ", "d", "e",
    "v", "e", "l", "o", "p", "m", "e", "n", "t", ",", " ", "a", "n", "d",
    " ", "i", "n", "n", "o", "v", "a", "t", "i", "o", "n", ".">>

TxtCreatesContentOn ==
    <<" ", "c", "r", "e", "a", "t", "e", "s", " ", "c", "o", "n", "t", "e",
    "n", "t", " ", "o", "n", " ">>

TxtYoutube ==
    <<"y", "o", "u", "t", "u", "b", "e">>

TxtGithub ==
    <<"g", "i", "t", "h", "u", "b">>

TxtInstagram ==
    <<"i", "n", "s", "t", "a", "g", "r", "a", "m">>

TxtUnknown ==
    <<"u", "n", "k", "n", "o", "w", "n">>

LlmNumbered ==
    <<"1", ".", " ", "D", "e", "s", "c", "r", "i", "p", "t", "o", "r", ":",
    " ", "I", "n", "n", "o", "v", "a", "t", "o", "r", "\n", "2", ".", " ",
    "S", "u", "m", "m", "a", "r", "y", ":", " ", "E", "x", "p", "l", "a",
    "i", "n", "s", " ", "n", "e", "w", " ", "t", "e", "c", "h", " ", "c",
    "l", "e", "a", "r", "l", "y", ".">>

LlmMarkup ==
    <<"D", "e", "s", "c", "r", "i", "p", "t", "o", "r", ":", " ", "*", "*",
    "E", "d", "u", "c", "a", "t", "o", "r", "*", "*", "\n", "S", "u", "m",
    "m", "a", "r", "y", ":", " ", "T", "e", "a", "c", "h", "e", "s", ":",
    " ", "c", "o", "d", "e", ",", " ", "s", "t", "e", "p", " ", "b", "y",
    " ", "s", "t", "e", "p", ".", "\n">>

LlmUnlabeled ==
    <<"T", "h", "e", "y", " ", "m", "a", "k", "e", " ", "v", "i", "d", "e",
    "o", "s", " ", "a", "b", "o", "u", "t", " ", "g", "a", "d", "g", "e",
    "t", "s", ".">>

LlmNoColon ==
    <<"1", ".", " ", "M", "a", "k", "e", "r", "\n", "2", ".", " ", "B", "u",
    "i", "l", "d", "s", " ", "t", "h", "i", "n", "g", "s", " ", "o", "n",
    " ", "c", "a", "m", "e", "r", "a", ".">>

LlmTwoColons ==
    <<"O", "n", "e", "-", "w", "o", "r", "d", " ", "d", "e", "s", "c", "r",
    "i", "p", "t", "o", "r", ":", " ", "S", "t", "y", "l", "e", ":", " ",
    "B", "o", "l", "d", "\n", "S", "h", "o", "r", "t", " ", "s", "u", "m",
    "m", "a", "r", "y", ":", " ", "L", "o", "u", "d", " ", "a", "n", "d",
    " ", "f", "a", "s", "t", ".">>

LlmRepeated ==
    <<"D", "e", "s", "c", "r", "i", "p", "t", "o", "r", ":", " ", "F", "i",
    "r", "s", "t", "\n", "D", "e", "s", "c", "r", "i", "p", "t", "o", "r",
    ":", " ", "S", "e", "c", "o", "n", "d", "\n", "S", "u", "m", "m", "a",
    "r", "y", ":", " ", "O", "n", "e", "\n", "S", "u", "m", "m", "a", "r",
    "y", ":", " ", "T", "w", "o">>

LlmPadded ==
    <<" ", "\n", "P", "l", "a", "i", "n", " ", "t", "a", "l", "k", ".",
    "\n", "N", "o", " ", "l", "a", "b", "e", "l", "s", ".", " ", "\n">>

\* What the generative model answers to a characterization request: it
\* raises, or returns a text (numbered and labelled lines, emphasis markup,
\* no labelled line, numbered lines without a colon, a label followed by a
\* second colon, repeated labels, unlabelled lines within whitespace, the
\* empty text).
CharacterizerAnswers ==
    {[raised |-> TRUE, content |-> <<>>]}
    \cup {[raised |-> FALSE, content |-> c] :
            c \in {LlmNumbered, LlmMarkup, LlmUnlabeled, LlmNoColon,
                   LlmTwoColons, LlmRepeated, LlmPadded, <<>>}}

IsDescriptorLine(line) ==
    Contains(TxtDescriptorColon, Lower(line)) \/ StartsWith(line, TxtOneDot)

IsSummaryLine(line) ==
    Contains(TxtSummaryColon, Lower(line)) \/ StartsWith(line, TxtTwoDot)

\* The loop over the lines of the response: the pair after the lines from
\* position i on, starting from the pair acc.
RECURSIVE parse_lines(_, _, _)
parse_lines(lines, i, acc) ==
    IF i > Len(lines) THEN acc
    ELSE IF IsDescriptorLine(lines[i])
    THEN parse_lines(lines, i + 1,
            [acc EXCEPT !.descriptor =
                StripChars(Strip(AfterLastColon(lines[i])),
                           {"\"", "'", "*", "_", " "})])
    ELSE IF IsSummaryLine(lines[i])
    THEN parse_lines(lines, i + 1,
            [acc EXCEPT !.summary = Strip(AfterFirstColon(lines[i]))])
    ELSE parse_lines(lines, i + 1, acc)

\* The clean-up of the descriptor after the loop.
clean_descriptor(parsed) ==
    [parsed EXCEPT !.descriptor = Strip(RemoveMarkup(@))]

\* The parsing of result = response.content.strip().
parse_result(result) ==
    clean_descriptor(
        parse_lines(SplitOn(result, "\n"), 1,
                    [descriptor |-> TxtCreator, summary |-> result]))

\* A parsing of the response as the model returned it, not trimmed.
parse_response_raw(content) ==
    parse_result(content)

\* The parsing of the model's response in analyze_content_node.
parse_response(content) ==
    parse_result(Strip(content))

\* str(platform) as text.
PlatformText(platform) ==
    CASE platform = "youtube" -> TxtYoutube
      [] platform = "github" -> TxtGithub
      [] platform = "instagram" -> TxtInstagram
      [] platform = "unknown" -> TxtUnknown
      [] OTHER -> <<>>

\* The descriptor/summary pair analyze_content_node stores.
characterize(has_llm, channel_name, platform, ans) ==
    IF ~has_llm
    THEN [descriptor |-> TxtTechEducator,
          summary |-> channel_name \o TxtMockStyle]
    ELSE IF ans.raised
    THEN [descriptor |-> TxtCreator,
          summary |-> channel_name \o TxtCreatesContentOn
                      \o PlatformText(platform) \o <<".">>]
    ELSE parse_response(ans.content)

----------------------------------------------------------------------------
(* backend/agents/creator_analyzer.py: the workflow state, its nodes and   *)
(* its graph.                                                              *)

TxtMockIdPrefix ==
    <<"m", "o", "c", "k", "_">>

TxtMockTranscriptHead ==
    <<"[", "M", "o", "c", "k", " ", "t", "r", "a", "n", "s", "c", "r", "i",
    "p", "t", " ", "f", "o", "r", ":", " ">>

TxtMockTranscriptTail ==
    <<"]", " ", "T", "h", "i", "s", " ", "v", "i", "d", "e", "o", " ", "c",
    "o", "v", "e", "r", "s", " ", "t", "e", "c", "h", "n", "i", "c", "a",
    "l", " ", "c", "o", "n", "t", "e", "n", "t", " ", "r", "e", "l", "a",
    "t", "e", "d", " ", "t", "o", " ", "t", "h", "e", " ", "c", "h", "a",
    "n", "n", "e", "l", "'", "s", " ", "n", "i", "c", "h", "e", ".">>

TxtFollowers ==
    <<" ", "f", "o", "l", "l", "o", "w", "e", "r", "s">>

\* The empty dict {}.
EmptyDict ==
    [k \in {} |-> <<>>]

\* initial_state of analyze(url)
initial_state(url) ==
    [url |-> url,
     platform |-> "",
     channel_name |-> <<>>,
     subscribers |-> <<>>,
     about |-> Some(<<>>),
     top_videos |-> <<>>,
     transcripts |-> <<>>,
     summaries |-> <<>>,
     content_descriptor |-> <<>>,
     content_summary |-> <<>>,
     final_output |-> EmptyDict,
     error |-> ""]

\* Number of top items a fetch node keeps ([:2]).
TopN ==
    2

\* x or y  on optional texts whose second operand is present.
OrElse(x, y) ==
    IF Truthy(x) THEN x.val ELSE y

\* The list passed on whole.
whole_list(list) ==
    list

\* list[:2]
first_two(list) ==
    Prefix(list, TopN)

\* A detect_platform_node that records the platform and reports no error.
detect_platform_node_silent(s) ==
    [s EXCEPT !.platform = detect_platform(s.url)]

\* The state detect_platform_node returns for the detected platform.
with_platform(s, platform) ==
    [s EXCEPT !.platform = platform,
              !.error = IF platform = "unknown"
                        THEN "Unsupported platform. Use YouTube or GitHub URL."
                        ELSE @]

\* CreatorAnalyzerAgent.detect_platform_node
detect_platform_node(s) ==
    with_platform(s, detect_platform(s.url))

\* The mock branch of fetch_youtube_data_node.
from_mock_data(s, mock_data) ==
    [s EXCEPT
        !.channel_name = mock_data.title,
        !.subscribers = mock_data.subscribers,
        !.about = Some(mock_data.description),
        !.top_videos =
            [i \in DOMAIN first_two(mock_data.video_titles) |->
                [title |-> mock_data.video_titles[i],
                 video_id |-> TxtMockIdPrefix \o IntToText(i - 1)]]]

\* The live branch of fetch_youtube_data_node on the record analyze_url
\* returned.
from_channel_data(s, channel_data) ==
    [s EXCEPT
        !.channel_name = channel_data.title,
        !.subscribers = channel_data.subscribers,
        !.about = Some(channel_data.description),
        !.top_videos =
            [i \in DOMAIN first_two(channel_data.top_videos) |->
                [title |-> channel_data.top_videos[i].title,
                 video_id |-> channel_data.top_videos[i].video_id,
                 view_count |-> channel_data.top_videos[i].view_count,
                 description |-> channel_data.top_videos[i].description]]]

\* A fetch_youtube_data_node without the mock branch: with no API key the
\* client resolves no channel and the fetch fails.
fetch_youtube_data_node_no_mock(s, api_key, data) ==
    IF ~api_key \/ data.isNone
    THEN [s EXCEPT !.error = "Failed to fetch YouTube data"]
    ELSE from_channel_data(s, data.val)

\* CreatorAnalyzerAgent.fetch_youtube_data_node: data is the mock record
\* when no API key is configured, else what YouTubeAPI.analyze_url returned.
fetch_youtube_data_node(s, api_key, data) ==
    IF ~api_key THEN from_mock_data(s, data.val)
    ELSE IF data.isNone
    THEN [s EXCEPT !.error = "Failed to fetch YouTube data"]
    ELSE from_channel_data(s, data.val)

\* CreatorAnalyzerAgent.fetch_github_data_node
fetch_github_data_node(s, data) ==
    IF data.isNone
    THEN [s EXCEPT !.error = "Failed to fetch GitHub data"]
    ELSE [s EXCEPT
            !.channel_name = OrElse(data.val.name, data.val.username),
            !.subscribers = IntToText(data.val.followers) \o TxtFollowers,
            !.about = data.val.bio,
            !.top_videos =
                [i \in DOMAIN first_two(data.val.top_repos) |->
                    [title |-> data.val.top_repos[i].name,
                     description |-> data.val.top_repos[i].description,
                     stars |-> data.val.top_repos[i].stars]]]

\* CreatorAnalyzerAgent.fetch_instagram_data_node
fetch_instagram_data_node(s, data) ==
    IF "error" \in DOMAIN data
    THEN [s EXCEPT !.error = data.error]
    ELSE [s EXCEPT
            !.channel_name = OrElse(data.name, data.username.val),
            !.subscribers = data.followers \o TxtFollowers,
            !.about = Some(data.bio),
            !.top_videos =
                [i \in DOMAIN first_two(data.top_posts) |->
                    [title |-> IF data.top_posts[i].caption # <<>>
                               THEN Prefix(data.top_posts[i].caption,
                                           CaptionMax)
                               ELSE TxtUntitledPost,
                     likes |-> data.top_posts[i].likes,
                     comments |-> data.top_posts[i].comments,
                     type |-> data.top_posts[i].type,
                     url |-> data.top_posts[i].url]]]

\* CreatorAnalyzerAgent.get_transcripts_node: answers[i] is what the
\* transcript service answers for video i (read only in live mode).
get_transcripts_node(s, api_key, answers) ==
    [s EXCEPT !.transcripts =
        [i \in DOMAIN s.top_videos |->
            LET video == s.top_videos[i]
                description == Get(video, "description", <<>>)
            IN  IF Get(video, "video_id", <<>>) = <<>>
                THEN [title |-> video.title,
                      transcript |-> None,
                      description |-> description]
                ELSE [title |-> video.title,
                      transcript |->
                        IF ~api_key
                        THEN Some(TxtMockTranscriptHead \o video.title
                                  \o TxtMockTranscriptTail)
                        ELSE get_video_transcript(answers[i]),
                      video_id |-> video.video_id,
                      description |-> description]]]

\* A summarize node that reports a missing transcript as an error.
summarize_transcripts_node_strict(s, has_llm, answers) ==
    IF \E i \in DOMAIN s.transcripts : ~Truthy(s.transcripts[i].transcript)
    THEN [s EXCEPT !.error = "Transcript unavailable"]
    ELSE [s EXCEPT !.summaries =
            summarize_multiple_transcripts(has_llm, s.transcripts, answers)]

\* CreatorAnalyzerAgent.summarize_transcripts_node
summarize_transcripts_node(s, has_llm, answers) ==
    [s EXCEPT !.summaries =
        summarize_multiple_transcripts(has_llm, s.transcripts, answers)]

\* The state analyze_content_node returns for the pair it derived.
with_characterization(s, pair) ==
    [s EXCEPT !.content_descriptor = pair.descriptor,
              !.content_summary = pair.summary]

\* An analyze_content_node that does not catch what llm.invoke raises: the
\* failure ends up in the error field.
analyze_content_node_unguarded(s, has_llm, ans) ==
    IF has_llm /\ ans.raised THEN [s EXCEPT !.error = "Analysis failed"]
    ELSE with_characterization(
            s, characterize(has_llm, s.channel_name, s.platform, ans))

\* CreatorAnalyzerAgent.analyze_content_node (the context it assembles for
\* the prompt is sent to the model and stored nowhere).
analyze_content_node(s, has_llm, ans) ==
    with_characterization(
        s, characterize(has_llm, s.channel_name, s.platform, ans))

\* CreatorAnalyzerAgent.format_output_node
format_output_node(s) ==
    [s EXCEPT !.final_output =
        [platform |-> s.platform,
         channel_name |-> s.channel_name,
         subscribers |-> s.subscribers,
         content_descriptor |-> s.content_descriptor,
         content_summary |-> s.content_summary,
         about |-> OrElse(s.about, <<>>),
         top_content |-> s.top_videos,
         summaries |-> s.summaries]]

\* CreatorAnalyzerAgent.route_by_platform
route_by_platform(s) ==
    IF s.error # "" THEN "error"
    ELSE IF s.platform = "youtube" THEN "youtube"
    ELSE IF s.platform = "github" THEN "github"
    ELSE IF s.platform = "instagram" THEN "instagram"
    ELSE "error"

\* The node names of the workflow.
Nodes ==
    {"detect_platform", "fetch_youtube_data", "fetch_github_data",
     "fetch_instagram_data", "get_transcripts", "summarize_transcripts",
     "analyze_content", "format_output"}

\* CreatorAnalyzerAgent._build_graph: the edge leaving node, given the state
\* node returned (a conditional edge after detect_platform, plain edges
\* elsewhere).
edge_from(node, s) ==
    CASE node = "detect_platform" ->
            [youtube |-> "fetch_youtube_data",
             github |-> "fetch_github_data",
             instagram |-> "fetch_instagram_data",
             error |-> "END"][route_by_platform(s)]
      [] node = "fetch_youtube_data" -> "get_transcripts"
      [] node = "get_transcripts" -> "summarize_transcripts"
      [] node = "summarize_transcripts" -> "analyze_content"
      [] node = "analyze_content" -> "format_output"
      [] node = "format_output" -> "END"
      [] node = "fetch_github_data" -> "analyze_content"
      [] node = "fetch_instagram_data" -> "analyze_content"

\* A graph whose YouTube path goes from the transcripts straight to the
\* characterization.
next_node_no_summaries(node, s) ==
    IF node = "get_transcripts" THEN "analyze_content"
    ELSE edge_from(node, s)

\* A graph that runs the characterization again when it fell back to the
\* default descriptor.
next_node_retry(node, s) ==
    IF node = "analyze_content" /\ s.content_descriptor = TxtCreator
    THEN "analyze_content"
    ELSE edge_from(node, s)

\* The compiled workflow: the node workflow.invoke runs after node.
next_node(node, s) ==
    edge_from(node, s)

\* An analyze() that returns the formatted output without looking at the
\* error field.
analyze_result_unchecked(final_state) ==
    final_state.final_output

\* The value analyze() returns from the final state.
analyze_result(final_state) ==
    IF final_state.error # "" THEN [error |-> final_state.error]
    ELSE final_state.final_output

----------------------------------------------------------------------------
(* One analyze(url) run on an analyzer constructed under some environment. *)

VARIABLES
    env,        \* which credentials the environment holds
    state,      \* the AnalyzerState of the run
    pc,         \* the node to run next, "END", or "returned"
    executed,   \* the nodes run so far, in order
    data,       \* what the platform client returned to the fetch node
    outbound,   \* the outcome of the account-resolving API calls
    submitted,  \* the summarizer's requests to the model and their outcome
    reply,      \* the model's answer to the characterization request
    listed,     \* the repository list the GitHub API returned
    result,     \* what analyze() returned (None before it returns)
    fleet,      \* the analyze() calls running concurrently on one analyzer
    transcript_call, \* one call of YouTubeAPI.get_video_transcript
    db,         \* the collections of the MongoDB database
    inflight,   \* the requests the web API is handling, one per client
    tokens,     \* the access tokens signup has issued
    started     \* how many requests the web API has received

\* No call of get_video_transcript is modelled on its own.
NoTranscriptCall ==
    [pc |-> "idle"]

\* The database before any document is inserted.
EmptyDb ==
    [users |-> {}, content_requests |-> {}, creator_applications |-> {},
     ids |-> 0]

\* The web API is not modelled: no document, no request, no token.
ServiceIdle ==
    /\ db = EmptyDb
    /\ inflight = <<>>
    /\ tokens = {}
    /\ started = 0

\* What a single run of the workflow leaves alone.
aside ==
    <<fleet, transcript_call, db, inflight, tokens, started>>

vars ==
    <<env, state, pc, executed, data, outbound, submitted, reply, listed,
      result, fleet, transcript_call, db, inflight, tokens, started>>

\* The credentials read from the environment: YouTubeAPI.api_key,
\* InstagramAPI.access_token and INSTAGRAM_BUSINESS_ACCOUNT_ID, and the
\* key of the generative model (CreatorAnalyzerAgent.llm and
\* TranscriptSummarizer.llm are both built from it).
Environments ==
    [YOUTUBE_API_KEY : BOOLEAN,
     INSTAGRAM_ACCESS_TOKEN : BOOLEAN,
     INSTAGRAM_BUSINESS_ACCOUNT_ID : BOOLEAN,
     GEMINI_API_KEY : BOOLEAN]

\* self.llm is not None
llm ==
    env.GEMINI_API_KEY

\* self.access_token and os.getenv("INSTAGRAM_BUSINESS_ACCOUNT_ID")
instagram_configured ==
    env.INSTAGRAM_ACCESS_TOKEN /\ env.INSTAGRAM_BUSINESS_ACCOUNT_ID

\* No API call has been made.
NoCalls ==
    [lookup |-> "skipped", account |-> "skipped"]

Outcome(found) ==
    IF found THEN "hit" ELSE "miss"

\* The credentials a run on a URL of the given platform reads: the clients
\* of the other platforms are constructed and never called.
credentials_read(platform) ==
    CASE platform = "youtube" -> {"YOUTUBE_API_KEY", "GEMINI_API_KEY"}
      [] platform = "github" -> {"GEMINI_API_KEY"}
      [] platform = "instagram" ->
            {"INSTAGRAM_ACCESS_TOKEN", "INSTAGRAM_BUSINESS_ACCOUNT_ID",
             "GEMINI_API_KEY"}
      [] OTHER -> {}

\* The runs explored: every URL under every setting of the credentials its
\* run reads, the credentials it never reads being left unset.
Runs ==
    {r \in Environments \X Urls :
        \A c \in DOMAIN r[1] \ credentials_read(detect_platform(r[2])) :
            ~r[1][c]}

Init ==
    /\ \E r \in Runs :
            /\ env = r[1]
            /\ state = initial_state(r[2])
    /\ pc = "detect_platform"
    /\ executed = <<>>
    /\ data = None
    /\ outbound = NoCalls
    /\ submitted = <<>>
    /\ reply = None
    /\ listed = <<>>
    /\ result = None
    /\ fleet = <<>>
    /\ transcript_call = NoTranscriptCall
    /\ ServiceIdle

\* The bookkeeping common to every node: the node is recorded and the graph
\* picks the node to run next from the state the node returned.
Step(node, s) ==
    /\ pc = node
    /\ state' = s
    /\ executed' = Append(executed, node)
    /\ pc' = next_node(node, s)
    /\ UNCHANGED <<env, result, aside>>

DetectPlatformNode ==
    /\ Step("detect_platform", detect_platform_node(state))
    /\ UNCHANGED <<data, outbound, submitted, reply, listed>>

\* The API calls YouTubeAPI.analyze_url makes for url, and their outcomes.
youtube_calls(url, ans) ==
    [lookup |-> IF \/ ~extract_video_id_from_url(url).isNone
                   \/ channel_pattern(url) \in {"handle", "username"}
                THEN Outcome(ans.lookup) ELSE "skipped",
     account |-> IF resolves_channel_id(url, ans)
                 THEN Outcome(~ans.channel.isNone) ELSE "skipped"]

FetchYouTubeDataNode ==
    /\ pc = "fetch_youtube_data"
    /\ IF ~env.YOUTUBE_API_KEY
       THEN /\ data' = Some(youtube_mock)
            /\ outbound' = NoCalls
       ELSE \E ans \in YouTubeAnswers :
                /\ data' = youtube_analyze_url(state.url, ans)
                /\ outbound' = youtube_calls(state.url, ans)
    /\ Step("fetch_youtube_data",
            fetch_youtube_data_node(state, env.YOUTUBE_API_KEY, data'))
    /\ UNCHANGED <<submitted, reply, listed>>

\* What the GitHub API may answer about username (nothing is asked when no
\* username was extracted).
github_answers(username) ==
    IF username.isNone THEN {[profile |-> None, repos |-> <<>>]}
    ELSE GitHubAnswers(username.val)

\* The API calls GitHubAPI.analyze_url makes, and their outcomes.
github_calls(username, ans) ==
    [lookup |-> "skipped",
     account |-> IF username.isNone THEN "skipped"
                 ELSE Outcome(~ans.profile.isNone)]

FetchGitHubDataNode ==
    /\ pc = "fetch_github_data"
    /\ \E ans \in github_answers(extract_username_from_url(state.url)) :
            /\ data' = github_analyze_url(state.url, ans)
            /\ outbound' =
                 github_calls(extract_username_from_url(state.url), ans)
            /\ listed' = ans.repos
    /\ Step("fetch_github_data", fetch_github_data_node(state, data'))
    /\ UNCHANGED <<submitted, reply>>

\* What the Graph API may answer about username (nothing is asked when the
\* client is not configured or no username was extracted).
instagram_answers(username, configured) ==
    IF configured /\ ~username.isNone THEN InstagramAnswers(username.val)
    ELSE {[profile |-> None, media |-> <<>>]}

\* The API calls InstagramAPI.analyze_url makes, and their outcomes.
instagram_calls(username, configured, ans) ==
    [lookup |-> "skipped",
     account |-> IF configured /\ ~username.isNone
                 THEN Outcome(~ans.profile.isNone) ELSE "skipped"]

FetchInstagramDataNode ==
    /\ pc = "fetch_instagram_data"
    /\ \E ans \in instagram_answers(extract_username(state.url),
                                    instagram_configured) :
            /\ data' = instagram_analyze_url(state.url,
                                             instagram_configured, ans)
            /\ outbound' = instagram_calls(extract_username(state.url),
                                           instagram_configured, ans)
    /\ Step("fetch_instagram_data", fetch_instagram_data_node(state, data'))
    /\ UNCHANGED <<submitted, reply, listed>>

\* One answer per index of list, drawn from answers when the call is made.
AnswersFor(list, made, answers) ==
    IF made THEN [DOMAIN list -> answers]
    ELSE {[i \in DOMAIN list |-> CHOOSE a \in answers : TRUE]}

GetTranscriptsNode ==
    /\ \E answers \in AnswersFor(state.top_videos, env.YOUTUBE_API_KEY,
                                 TranscriptAnswers) :
            Step("get_transcripts",
                 get_transcripts_node(state, env.YOUTUBE_API_KEY, answers))
    /\ UNCHANGED <<data, outbound, submitted, reply, listed>>

SummarizeTranscriptsNode ==
    /\ \E answers \in AnswersFor(state.transcripts, llm, SummarizerAnswers) :
            /\ Step("summarize_transcripts",
                    summarize_transcripts_node(state, llm, answers))
            /\ submitted' =
                 summarizer_requests(llm, state.transcripts, answers)
    /\ UNCHANGED <<data, outbound, reply, listed>>

AnalyzeContentNode ==
    /\ \E ans \in IF llm THEN CharacterizerAnswers
                  ELSE {CHOOSE a \in CharacterizerAnswers : TRUE} :
            /\ Step("analyze_content", analyze_content_node(state, llm, ans))
            /\ reply' = IF llm THEN Some(ans) ELSE None
    /\ UNCHANGED <<data, outbound, submitted, listed>>

FormatOutputNode ==
    /\ Step("format_output", format_output_node(state))
    /\ UNCHANGED <<data, outbound, submitted, reply, listed>>

\* workflow.invoke has reached END: analyze() returns.
AnalyzeReturn ==
    /\ pc = "END"
    /\ result' = analyze_result(state)
    /\ pc' = "returned"
    /\ UNCHANGED <<env, state, executed, data, outbound, submitted,
                   reply, listed, aside>>

Next ==
    \/ DetectPlatformNode
    \/ FetchYouTubeDataNode
    \/ FetchGitHubDataNode
    \/ FetchInstagramDataNode
    \/ GetTranscriptsNode
    \/ SummarizeTranscriptsNode
    \/ AnalyzeContentNode
    \/ FormatOutputNode
    \/ AnalyzeReturn

Spec ==
    Init /\ [][Next]_vars

\* The node the runner has started returns and is recorded.
NodeCompletes ==
    pc \in Nodes /\ executed' = Append(executed, pc)

\* workflow.invoke returns at END and analyze() returns its result.
InvokeReturns ==
    pc = "END" /\ pc' = "returned"

\* Every node the runner starts returns: the outbound calls a node makes are
\* blocking calls that return or raise, the nodes catch what they raise, and
\* the runner then starts the next node; at END workflow.invoke returns.
\* The fairness is stated on what such a step does to executed and pc.
FairSpec ==
    Spec /\ WF_executed(NodeCompletes) /\ WF_pc(InvokeReturns)


----------------------------------------------------------------------------
(* Properties of a run.                                                    *)

\* The stages that fetch a platform's profile.
FetchStages ==
    {"fetch_youtube_data", "fetch_github_data", "fetch_instagram_data"}

\* analyze() has returned.
Returned ==
    pc = "returned"

\* analyze() has returned a result that is no error result.
Succeeded ==
    Returned /\ "error" \notin DOMAIN result

\* A fetch stage ran and reported a failure (detection errors end the run
\* before any fetch stage).
FetchFailed ==
    /\ Len(executed) >= 2
    /\ executed[2] \in FetchStages
    /\ state.error # ""

\* C1: when the fetch stage of the chosen platform reports a failure, no
\* further stage executes: the step after the failing fetch stage is END.
FetchFailureEndsRun ==
    FetchFailed => Len(executed) = 2 /\ pc \in {"END", "returned"}

\* The fields of the state that carry the profile and its analysis.
Substantive(s) ==
    <<s.channel_name, s.subscribers, s.about, s.top_videos, s.transcripts,
      s.summaries, s.content_descriptor, s.content_summary, s.final_output>>

\* C2: once the error field is non-empty, every later step leaves
\* channel_name, subscribers, about, top_videos, transcripts, summaries,
\* content_descriptor, content_summary and final_output unchanged.
ErrorFreezesFields ==
    [][state.error # "" => Substantive(state') = Substantive(state)]_vars

\* The eight keys of a complete result.
ResultKeys ==
    {"platform", "channel_name", "subscribers", "content_descriptor",
     "content_summary", "about", "top_content", "summaries"}

\* C3: analyze() returns a record holding only the key error, or a record
\* holding exactly the eight result keys and no error key.
ResultHasOneOfTwoShapes ==
    Returned => DOMAIN result = {"error"} \/ DOMAIN result = ResultKeys

\* A run that went through every stage after a failed fetch returned an
\* error result.
ErrorResultAfterFullPipeline ==
    /\ Returned
    /\ FetchFailed
    /\ DOMAIN state.final_output = ResultKeys
    /\ DOMAIN result = {"error"}

\* The lower-cased url contains none of the five hostname fragments.
HasNoKnownFragment(url) ==
    \A frag \in {FragYoutubeCom, FragYoutuBe, FragGithubCom,
                 FragInstagramCom, FragInstagrAm} :
        ~Contains(frag, Lower(url))

\* C4: a URL with no known hostname fragment is detected as unknown, the
\* run goes from detect_platform directly to END, and analyze() returns an
\* error result with no other field.
UnknownUrlEndsAtOnce ==
    (HasNoKnownFragment(state.url) /\ Returned) =>
        /\ state.platform = "unknown"
        /\ executed = <<"detect_platform">>
        /\ DOMAIN result = {"error"}
        /\ result.error # ""

\* analyze() has returned for a URL of no known platform.
UnknownUrlReturned ==
    /\ Returned
    /\ HasNoKnownFragment(state.url)
    /\ state.url # <<>>

\* The stages of a successful run on each platform, in order.
StagesOf(platform) ==
    CASE platform = "youtube" ->
            <<"detect_platform", "fetch_youtube_data", "get_transcripts",
              "summarize_transcripts", "analyze_content", "format_output">>
      [] platform = "github" ->
            <<"detect_platform", "fetch_github_data", "analyze_content",
              "format_output">>
      [] platform = "instagram" ->
            <<"detect_platform", "fetch_instagram_data", "analyze_content",
              "format_output">>

\* C5: the stages a successful run executes are fixed by the detected
\* platform: the six stages of the YouTube path, or detection, the
\* platform's fetch, characterization and formatting for GitHub and
\* Instagram.
StageSequenceFixedByPlatform ==
    (pc \in {"END", "returned"} /\ state.error = "") =>
        executed = StagesOf(state.platform)

\* A successful GitHub run has returned, without the transcript stages.
GitHubRunSucceeded ==
    /\ Succeeded
    /\ state.platform = "github"
    /\ "get_transcripts" \notin Range(executed)

\* No stage occurs twice among the stages executed.
NoStageTwice ==
    \A i, j \in DOMAIN executed : i # j => executed[i] # executed[j]

\* C6: every run eventually reaches END, and no stage is executed more
\* than once in a run.
RunEndsWithoutRepeats ==
    <>(pc = "END") /\ []NoStageTwice

\* A live YouTube run reached END after a failed fetch, each stage run once.
FailedRunReachedEnd ==
    /\ pc = "END"
    /\ FetchFailed
    /\ Len(executed) = 6

\* The platform the priority order YouTube, GitHub, Instagram assigns to the
\* lower-cased text u.
ByPriority(u) ==
    IF Contains(FragYoutubeCom, u) \/ Contains(FragYoutuBe, u)
    THEN "youtube"
    ELSE IF Contains(FragGithubCom, u) THEN "github"
    ELSE IF Contains(FragInstagramCom, u) \/ Contains(FragInstagrAm, u)
    THEN "instagram"
    ELSE "unknown"

\* C7: detect_platform returns YouTube if the lower-cased URL contains a
\* YouTube fragment, otherwise GitHub if it contains the GitHub fragment,
\* otherwise Instagram if it contains an Instagram fragment, otherwise
\* unknown, whatever the scheme, the path and the letter case.
DetectionFollowsPriority ==
    executed # <<>> => state.platform = ByPriority(Lower(state.url))

\* A URL holding a GitHub fragment ahead of a YouTube one was detected as
\* YouTube.
SeveralPlatformsDetected ==
    /\ executed # <<>>
    /\ state.platform = "youtube"
    /\ state.url = UrlGhAndYoutube

\* What identifies each entry of the ranked content list the platform
\* client returned to the fetch stage: the video title, the repository
\* name, or the post's address.
ranked_content ==
    CASE state.platform = "youtube" /\ ~env.YOUTUBE_API_KEY ->
            data.val.video_titles
      [] state.platform = "youtube" /\ env.YOUTUBE_API_KEY ->
            [i \in DOMAIN data.val.top_videos |->
                data.val.top_videos[i].title]
      [] state.platform = "github" ->
            [i \in DOMAIN data.val.top_repos |-> data.val.top_repos[i].name]
      [] state.platform = "instagram" ->
            [i \in DOMAIN data.top_posts |-> data.top_posts[i].url]

\* What identifies each entry of the result's top_content.
surfaced_content ==
    [i \in DOMAIN result.top_content |->
        IF state.platform = "instagram" THEN result.top_content[i].url
        ELSE result.top_content[i].title]

\* C8: in a successful result top_content has at most 2 entries, the first
\* entries of the client's ranked content list in the same order.
TopContentIsFirstTwo ==
    Succeeded =>
        /\ Len(surfaced_content) <= 2
        /\ Len(surfaced_content) = Min({2, Len(ranked_content)})
        /\ surfaced_content = SubSeq(ranked_content, 1, Len(surfaced_content))

\* A live GitHub run succeeded for an account with three ranked
\* repositories.
LongRankedListSurfaced ==
    /\ Succeeded
    /\ state.platform = "github"
    /\ Len(ranked_content) = 3
    /\ Len(result.top_content) = 2

\* An API call that resolves the account found nothing or failed.
AccountCallFailed ==
    "miss" \in {outbound.lookup, outbound.account}

\* C9: in live mode, when the API call that resolves the account (or an
\* intermediate YouTube lookup) fails or finds no account, analyze()
\* returns an error result, on each of the three platforms.
FailedAccountCallIsError ==
    (Returned /\ AccountCallFailed) => DOMAIN result = {"error"}

TxtDemoTechCreator ==
    <<"D", "e", "m", "o", " ", "T", "e", "c", "h", " ", "C", "r", "e", "a",
    "t", "o", "r">>

TxtOnePointFiveM ==
    <<"1", ".", "5", "M">>

\* C10: without the YouTube credential, analyze() of a URL detected as
\* YouTube returns a successful result with channel_name "Demo Tech
\* Creator" and subscribers "1.5M", never an error result.
MockChannelWithoutCredential ==
    (Returned /\ state.platform = "youtube" /\ ~env.YOUTUBE_API_KEY) =>
        /\ "error" \notin DOMAIN result
        /\ result.channel_name = TxtDemoTechCreator
        /\ result.subscribers = TxtOnePointFiveM

\* analyze() returned for a YouTube URL naming no channel, with no YouTube
\* credential.
MockRunReturned ==
    /\ Returned
    /\ ~env.YOUTUBE_API_KEY
    /\ state.url = UrlYtHome
----------------------------------------------------------------------------
(* Properties of the displayed counts and of the summaries.                *)

\* The raw follower or subscriber counts the displayed string of a
\* successful run may stand for: the count the client kept beside its
\* answer, or, for the Instagram client, which keeps none, the counts the
\* Graph API may have answered.
answered_counts ==
    CASE state.platform = "youtube" /\ ~data.isNone ->
            {data.val.subscriber_count_raw}
      [] state.platform = "github" /\ ~data.isNone ->
            {data.val.followers}
      [] state.platform = "instagram" /\ outbound.account = "hit" ->
            {p.followers_count :
                p \in InstagramProfiles(extract_username(state.url).val)}
      [] OTHER -> {}

\* C11: on every platform the displayed follower/subscriber string renders
\* the count by the same bands: at least 1,000,000,000 with suffix B, at
\* least 1,000,000 with suffix M, at least 1,000 with suffix K (one decimal
\* each), smaller counts as the plain integer (the profile nodes of GitHub
\* and Instagram append the word followers).
CountBandsUniform ==
    Succeeded /\ answered_counts # {} =>
        \E n \in answered_counts :
            result.subscribers \in
                {format_large_number(n),
                 format_large_number(n) \o TxtFollowers}

\* The transcript fetch of at least one top video of a YouTube run returned
\* nothing.
SomeTranscriptMissing ==
    /\ state.platform = "youtube"
    /\ \E i \in DOMAIN state.transcripts :
            ~Truthy(state.transcripts[i].transcript)

\* The stages after the transcript fetch, in the order they run.
StagesAfterTranscripts ==
    <<"summarize_transcripts", "analyze_content", "format_output">>

\* C12: a missing transcript is never an error: a YouTube run in which the
\* transcript of some top video is missing still runs the summarize,
\* characterize and format stages, and analyze() returns a result without
\* error whose content_summary is not empty.
MissingTranscriptIsNoError ==
    SomeTranscriptMissing /\ Returned =>
        /\ "error" \notin DOMAIN result
        /\ SubSeq(executed, 4, 6) = StagesAfterTranscripts
        /\ result.content_summary # <<>>

\* The model answered the characterization request with a text.
ModelRepliedText ==
    ~reply.isNone /\ ~reply.val.raised

\* What holds of a run with a missing transcript: it runs the three stages
\* and returns a result without error whose content_summary is a text, and
\* this text is empty only when it was taken from a text the model
\* returned.
MissingTranscriptRunSucceeds ==
    SomeTranscriptMissing /\ Returned =>
        /\ "error" \notin DOMAIN result
        /\ SubSeq(executed, 4, 6) = StagesAfterTranscripts
        /\ result.content_summary \in Seq(STRING)
        /\ result.content_summary = <<>> => ModelRepliedText

\* Runs returned in which the transcripts of both top videos were missing.
AllTranscriptsMissingReturned ==
    /\ Returned
    /\ Len(state.transcripts) = 2
    /\ \A i \in DOMAIN state.transcripts :
            ~Truthy(state.transcripts[i].transcript)
    /\ result.content_summary # <<>>

\* The summarize stage has run.
Summarized ==
    Len(executed) >= 4 /\ executed[4] = "summarize_transcripts"

\* Item i was summarized without a transcript.
WithoutTranscript(i) ==
    ~Truthy(state.summaries[i].transcript)

\* The summary of an item without transcript, by its description alone.
FromDescriptionAlone(item) ==
    LET desc == item.description
        k == IF Len(desc) < 200 THEN Len(desc) ELSE 200
        n == Len(item.summary)
    IN  IF desc = <<>> THEN item.summary = TxtNoTranscript
        ELSE /\ n >= k
             /\ SubSeq(item.summary, n - k + 1, n) = SubSeq(desc, 1, k)
             /\ Contains(item.title, SubSeq(item.summary, 1, n - k))
             /\ \A j \in (k + 1)..Len(desc) :
                    desc[j] \notin Range(item.summary)

\* C13: for every item summarized without a transcript no request is sent
\* to the generative model, and the summary follows from the description
\* alone: the fixed placeholder when there is none, else a text holding the
\* title and the first min(200, length) characters of the description and
\* no later character of it.
NoTranscriptSummaryFromDescription ==
    Summarized =>
        \A i \in DOMAIN state.summaries :
            WithoutTranscript(i) =>
                /\ submitted[i] = None
                /\ FromDescriptionAlone(state.summaries[i])

\* With a model configured, an item without transcript whose description is
\* longer than 200 characters, and one with no description, were summarized.
LongDescriptionSummarized ==
    /\ Summarized
    /\ llm
    /\ \E i, j \in DOMAIN state.summaries :
            /\ WithoutTranscript(i)
            /\ Len(state.summaries[i].description) > 200
            /\ WithoutTranscript(j)
            /\ state.summaries[j].description = <<>>

\* C14: the transcript text of every request the summarizer sends to the
\* generative model is the first 3,000 characters of the item's transcript
\* when the transcript is longer than that, and the whole transcript
\* otherwise.
ModelInputIsFirst3000 ==
    \A i \in DOMAIN submitted :
        ~submitted[i].isNone =>
            submitted[i].val.transcript =
                IF Len(state.transcripts[i].transcript.val) > 3000
                THEN SubSeq(state.transcripts[i].transcript.val, 1, 3000)
                ELSE state.transcripts[i].transcript.val

\* Requests were sent for a transcript longer than 3,000 characters and for
\* a shorter one.
LongAndShortTranscriptSubmitted ==
    \E i, j \in DOMAIN submitted :
        /\ ~submitted[i].isNone
        /\ Len(state.transcripts[i].transcript.val) > 3000
        /\ ~submitted[j].isNone
        /\ Len(state.transcripts[j].transcript.val) < 3000

\* The request for item i was sent and llm.invoke raised.
InvocationRaised(i) ==
    ~submitted[i].isNone /\ submitted[i].val.raised

\* C15: every record the summarizer produced carries a summary that is a
\* text; when the model invocation for an item raised, the summary is the
\* fixed error-tagged placeholder for its title, and the failure reaches
\* neither the state's error field nor the result of analyze().
SummaryAlwaysPresent ==
    Summarized =>
        \A i \in DOMAIN state.summaries :
            /\ "summary" \in DOMAIN state.summaries[i]
            /\ state.summaries[i].summary \in Seq(STRING)
            /\ InvocationRaised(i) =>
                    /\ state.summaries[i].summary
                          = TxtErrorSummary \o state.summaries[i].title
                    /\ state.error = ""
                    /\ Returned => "error" \notin DOMAIN result

\* A run returned in which one model invocation of the summarizer raised
\* and another item had neither transcript nor description.
RaisedInvocationSummarized ==
    /\ Returned
    /\ \E i, j \in DOMAIN state.summaries :
            /\ InvocationRaised(i)
            /\ WithoutTranscript(j)
            /\ state.summaries[j].description = <<>>

\* C16: the batch summarizer returns as many records as it was given, in
\* the same order, and record i is item i with every field it had (title,
\* transcript, description, video_id) unchanged and the one field summary
\* added.
SummarizerAddsOnlySummary ==
    Summarized =>
        /\ Len(state.summaries) = Len(state.transcripts)
        /\ \A i \in DOMAIN state.summaries :
                /\ "summary" \notin DOMAIN state.transcripts[i]
                /\ DOMAIN state.summaries[i]
                      = DOMAIN state.transcripts[i] \cup {"summary"}
                /\ \A k \in DOMAIN state.transcripts[i] :
                        state.summaries[i][k] = state.transcripts[i][k]

\* Two different items were summarized.
TwoDistinctItemsSummarized ==
    /\ Summarized
    /\ Len(state.transcripts) = 2
    /\ state.transcripts[1] # state.transcripts[2]
    /\ DOMAIN state.transcripts[1]
          = {"title", "transcript", "description", "video_id"}

\* The characterizer used its fixed fallback in the step just taken: no
\* model is configured, or the model call raised.
FellBack ==
    reply'.isNone \/ reply'.val.raised

\* C17: the characterize stage never fails the request: run on a state
\* without error, whether no model is configured, the model call raises or
\* the model returns any text, it leaves the error field empty, stores a
\* text in content_descriptor and in content_summary (non-empty texts when
\* it falls back), and hands over to format_output.
CharacterizeNeverFails ==
    [][pc = "analyze_content" /\ state.error = "" =>
            /\ state'.error = ""
            /\ pc' = "format_output"
            /\ state'.content_descriptor \in Seq(STRING)
            /\ state'.content_summary \in Seq(STRING)
            /\ FellBack => /\ state'.content_descriptor # <<>>
                           /\ state'.content_summary # <<>>]_vars

\* A run returned without error after the model answered the characterizer
\* with the empty text.
EmptyReplyRunSucceeded ==
    /\ Succeeded
    /\ ModelRepliedText
    /\ reply.val.content = <<>>

\* The characterize stage has run.
Characterized ==
    \E i \in DOMAIN executed : executed[i] = "analyze_content"

\* C18: in every successful result content_descriptor is a single word: it
\* is not empty and holds no whitespace and none of the emphasis characters
\* * and _, whichever path set it.
DescriptorIsOneWord ==
    Succeeded =>
        /\ result.content_descriptor # <<>>
        /\ \A i \in DOMAIN result.content_descriptor :
                /\ ~IsSpace(result.content_descriptor[i])
                /\ result.content_descriptor[i] \notin {"*", "_"}

\* The pair the characterizer stores when the model call raises.
RaisedPair(channel_name, platform) ==
    characterize(TRUE, channel_name, platform,
                 [raised |-> TRUE, content |-> <<>>])

\* C19: the characterizer has one fixed fallback: the pair it stores when
\* no model is configured is the pair it stores, for the same creator name
\* and platform, when the model call raises, and its descriptor is the
\* default descriptor of a model text without labelled line.
OneFixedFallback ==
    Characterized /\ ~llm =>
        /\ state.content_descriptor
              = RaisedPair(state.channel_name, state.platform).descriptor
        /\ state.content_summary
              = RaisedPair(state.channel_name, state.platform).summary
        /\ state.content_descriptor = parse_response(LlmUnlabeled).descriptor

\* The URLs of a detected platform from which the platform's client
\* extracts no identifier.
UrlsWithoutIdentifier ==
    [youtube |-> {u \in Urls : /\ detect_platform(u) = "youtube"
                               /\ extract_video_id_from_url(u).isNone
                               /\ channel_pattern(u) = "none"},
     github |-> {u \in Urls : /\ detect_platform(u) = "github"
                              /\ extract_username_from_url(u).isNone},
     instagram |-> {u \in Urls : /\ detect_platform(u) = "instagram"
                                 /\ extract_username(u).isNone}]

\* The fetch stage ran on a URL without identifier (for YouTube: in live
\* mode).
ExtractionFailed ==
    /\ Len(executed) >= 2
    /\ state.platform \in DOMAIN UrlsWithoutIdentifier
    /\ state.url \in UrlsWithoutIdentifier[state.platform]
    /\ state.platform = "youtube" => env.YOUTUBE_API_KEY

\* C20: when no identifier can be extracted from a URL of a detected
\* platform, the client returns a failure value (None, or for Instagram a
\* record with the key error) having made no API call, the fetch stage
\* records an error, and analyze() returns an error result.
NoIdentifierIsError ==
    ExtractionFailed =>
        /\ IF state.platform = "instagram" THEN "error" \in DOMAIN data
           ELSE data = None
        /\ outbound = NoCalls
        /\ state.error # ""
        /\ Returned => DOMAIN result = {"error"}

\* An Instagram run on a post URL returned, with the client configured.
ReservedSegmentRunReturned ==
    /\ Returned
    /\ ExtractionFailed
    /\ state.url = UrlIgPost
    /\ instagram_configured

----------------------------------------------------------------------------
(* Properties of the GitHub ranking.                                       *)

\* The GitHub client answered with a profile.
GitHubProfileFetched ==
    state.platform = "github" /\ Len(executed) >= 2 /\ ~data.isNone

\* The positions of the listed repositories that are no forks.
OwnPositions ==
    {i \in DOMAIN listed : ~listed[i].is_fork}

\* Listed repository i is ranked before listed repository j: it has more
\* stars, or as many and the API returned it earlier.
RankedBefore(i, j) ==
    \/ listed[i].stars > listed[j].stars
    \/ listed[i].stars = listed[j].stars /\ i < j

\* The positions the top list must hold: those with fewer than ClientTopN
\* other own repositories ranked before them.
TopPositions ==
    {i \in OwnPositions :
        Cardinality({j \in OwnPositions : RankedBefore(j, i)}) < ClientTopN}

\* C21: the client's top list holds no fork, holds the min(N, number of
\* non-fork repositories) non-fork repositories with the most stars, in
\* non-increasing star order, and keeps repositories with equal stars in
\* the order the API returned them.
TopReposRankedWithoutForks ==
    GitHubProfileFetched =>
        /\ \A k \in DOMAIN data.val.top_repos :
                ~data.val.top_repos[k].is_fork
        /\ Len(data.val.top_repos) = Cardinality(TopPositions)
        /\ \A k \in DOMAIN data.val.top_repos :
                \E i \in TopPositions :
                    /\ data.val.top_repos[k] = listed[i]
                    /\ Cardinality({j \in TopPositions : RankedBefore(j, i)})
                          = k - 1

\* The API returned more own repositories than the top list holds, a fork
\* among them with the most stars.
LongRepoListRanked ==
    /\ GitHubProfileFetched
    /\ Cardinality(OwnPositions) > ClientTopN
    /\ \E i \in DOMAIN listed :
            /\ listed[i].is_fork
            /\ \A j \in DOMAIN listed : listed[i].stars >= listed[j].stars

----------------------------------------------------------------------------
(* Several analyze() calls on one analyzer: main.py serves /analyze from a *)
(* thread pool, every call running the nodes of the one compiled workflow  *)
(* of the module-level analyzer on the state dict the call built.          *)

\* Number of concurrent analyze() calls.
NumCallers ==
    2

\* The URLs the concurrent calls analyze: one of each platform.
FleetUrls ==
    {UrlGhUser, UrlYtVideo, UrlIgUser}

\* The environments of the shared analyzer: no credential, every credential.
FleetEnvironments ==
    {e \in Environments : \A c, d \in DOMAIN e : e[c] = e[d]}

\* The transcript answers explored for concurrent calls.
FleetTranscriptAnswers ==
    {a \in TranscriptAnswers : a.tracks.isNone}

\* What the outside world may answer to the calls node makes on state s (a
\* part of the answers of the single run): the platform API, the transcript
\* service, the generative model.
fleet_answers(node, s) ==
    CASE node = "fetch_youtube_data" ->
            IF ~env.YOUTUBE_API_KEY
            THEN {[lookup |-> FALSE, channel |-> None, videos |-> <<>>]}
            ELSE {a \in YouTubeAnswers :
                    \/ a.channel.isNone /\ a.lookup
                    \/ /\ ~a.channel.isNone
                       /\ a.channel.val.subscriberCount = 1500
                       /\ Len(a.videos) = 1
                       /\ a.videos[1].view_count = 900}
      [] node = "fetch_github_data" ->
            {a \in github_answers(extract_username_from_url(s.url)) :
                a.profile.isNone
                \/ (a.profile.val.followers = 7 /\ a.repos = LongRepoList)}
      [] node = "fetch_instagram_data" ->
            {a \in instagram_answers(extract_username(s.url),
                                     instagram_configured) :
                a.profile.isNone
                \/ (a.profile.val.followers_count = 999 /\ Len(a.media) = 0)}
      [] node = "get_transcripts" ->
            AnswersFor(s.top_videos, env.YOUTUBE_API_KEY,
                       FleetTranscriptAnswers)
      [] node = "summarize_transcripts" ->
            AnswersFor(s.transcripts, llm, SummarizerAnswers)
      [] node = "analyze_content" ->
            IF llm
            THEN {a \in CharacterizerAnswers :
                    a.raised \/ a.content = LlmNumbered}
            ELSE {CHOOSE a \in CharacterizerAnswers : TRUE}
      [] OTHER -> {None}

\* The state node returns when run on state s with the answers ans.
apply_node(node, s, ans) ==
    CASE node = "detect_platform" -> detect_platform_node(s)
      [] node = "fetch_youtube_data" ->
            fetch_youtube_data_node(
                s, env.YOUTUBE_API_KEY,
                IF ~env.YOUTUBE_API_KEY THEN Some(youtube_mock)
                ELSE youtube_analyze_url(s.url, ans))
      [] node = "fetch_github_data" ->
            fetch_github_data_node(s, github_analyze_url(s.url, ans))
      [] node = "fetch_instagram_data" ->
            fetch_instagram_data_node(
                s, instagram_analyze_url(s.url, instagram_configured, ans))
      [] node = "get_transcripts" ->
            get_transcripts_node(s, env.YOUTUBE_API_KEY, ans)
      [] node = "summarize_transcripts" ->
            summarize_transcripts_node(s, llm, ans)
      [] node = "analyze_content" -> analyze_content_node(s, llm, ans)
      [] node = "format_output" -> format_output_node(s)

\* An analyzer that keeps the final state of the call that came first.
run_result_first(r, calls) ==
    analyze_result(calls[1].state)

\* What analyze() call r returns: the final state of its own invoke.
run_result(r, calls) ==
    analyze_result(calls[r].state)

\* No single run is modelled while concurrent calls run.
PipelineIdle ==
    /\ state = initial_state(UrlEmpty)
    /\ pc = "idle"
    /\ executed = <<>>
    /\ data = None
    /\ outbound = NoCalls
    /\ submitted = <<>>
    /\ reply = None
    /\ listed = <<>>
    /\ result = None

\* analyze(url) has built its initial state.
call_started(url) ==
    [url |-> url,
     state |-> initial_state(url),
     pc |-> "detect_platform",
     outcomes |-> <<>>,
     overlapped |-> FALSE,
     result |-> None]

FleetInit ==
    /\ env \in FleetEnvironments
    /\ fleet \in [1..NumCallers -> {call_started(u) : u \in FleetUrls}]
    /\ PipelineIdle
    /\ transcript_call = NoTranscriptCall
    /\ ServiceIdle

\* Another call is under way while call r takes a step.
Overlaps(r) ==
    \E q \in DOMAIN fleet :
        q # r /\ fleet[q].outcomes # <<>> /\ fleet[q].pc # "returned"

\* The thread of call r runs the node its workflow is at.
FleetNode(r) ==
    /\ fleet[r].pc \in Nodes
    /\ \E ans \in fleet_answers(fleet[r].pc, fleet[r].state) :
            fleet' = [fleet EXCEPT ![r] =
                [@ EXCEPT
                    !.state = apply_node(fleet[r].pc, fleet[r].state, ans),
                    !.pc = next_node(fleet[r].pc,
                                     apply_node(fleet[r].pc, fleet[r].state,
                                                ans)),
                    !.outcomes = Append(@, ans),
                    !.overlapped = @ \/ Overlaps(r)]]
    /\ UNCHANGED <<env, state, pc, executed, data, outbound, submitted,
                   reply, listed, result, transcript_call, db, inflight,
                   tokens, started>>

\* The invoke of call r has reached END: the call returns.
FleetReturn(r) ==
    /\ fleet[r].pc = "END"
    /\ fleet' = [fleet EXCEPT ![r] =
            [@ EXCEPT !.result = run_result(r, fleet), !.pc = "returned"]]
    /\ UNCHANGED <<env, state, pc, executed, data, outbound, submitted,
                   reply, listed, result, transcript_call, db, inflight,
                   tokens, started>>

FleetNext ==
    \/ \E r \in DOMAIN fleet : FleetNode(r)
    \/ \E r \in DOMAIN fleet : FleetReturn(r)

FleetSpec ==
    FleetInit /\ [][FleetNext]_vars

\* The run of the workflow from node on, executed alone on state s with the
\* recorded answers from position k on, and what analyze() then returns.
RECURSIVE solo_from(_, _, _, _)
solo_from(node, s, outcomes, k) ==
    IF node = "END" THEN analyze_result(s)
    ELSE solo_from(next_node(node, apply_node(node, s, outcomes[k])),
                   apply_node(node, s, outcomes[k]), outcomes, k + 1)

----------------------------------------------------------------------------
(* One call of YouTubeAPI.get_video_transcript against every behaviour of  *)
(* the transcript service.                                                 *)

\* Longest listing of transcript tracks.
MaxTracks ==
    3

\* What fetching one transcript gives: an exception (None) or its segments.
FetchOutcomes ==
    {None, Some(<<TxtSegHello, TxtSegWorld>>), Some(<<TxtSegHola>>),
     Some(<<>>)}

\* Every behaviour of the transcript service for one video: what
\* get_transcript gives for the English variants, and what list_transcripts
\* gives (an exception, or tracks with the outcome of fetching each).
TranscriptServiceAnswers ==
    {[english |-> e, tracks |-> t] :
        e \in FetchOutcomes,
        t \in {None} \cup
              {Some(l) : l \in UNION {[1..n -> FetchOutcomes \ {Some(<<>>)}] :
                                        n \in 0..MaxTracks}}}

TranscriptInit ==
    /\ transcript_call \in {[pc |-> "called", ans |-> a] :
                                a \in TranscriptServiceAnswers}
    /\ env \in {e \in FleetEnvironments : e.YOUTUBE_API_KEY}
    /\ PipelineIdle
    /\ fleet = <<>>
    /\ ServiceIdle

\* get_video_transcript runs to its return statement; no exception leaves
\* it, each being caught by the handler around the attempt that raised it.
GetVideoTranscript ==
    /\ transcript_call.pc = "called"
    /\ transcript_call' = [pc |-> "returned",
                           ans |-> transcript_call.ans,
                           raised |-> FALSE,
                           value |-> get_video_transcript(transcript_call.ans)]
    /\ UNCHANGED <<env, state, pc, executed, data, outbound, submitted,
                   reply, listed, result, fleet, db, inflight, tokens,
                   started>>

TranscriptNext ==
    GetVideoTranscript

TranscriptSpec ==
    TranscriptInit /\ [][TranscriptNext]_vars

\* The tracks of answer a whose fetch succeeds and that no fetched track
\* precedes in the listing.
FirstFetched(a) ==
    IF a.tracks.isNone THEN {}
    ELSE {i \in DOMAIN a.tracks.val :
            /\ ~a.tracks.val[i].isNone
            /\ \A j \in 1..(i - 1) : a.tracks.val[j].isNone}

\* C23: the transcript fetcher never raises and tries its sources in a
\* fixed order: the English-variant transcript if that request succeeds;
\* otherwise the text of the first listed track whose fetch succeeds; null
\* if the listing fails or no track fetches.
TranscriptSourcesInOrder ==
    transcript_call.pc = "returned" =>
        LET a == transcript_call.ans
        IN  /\ ~transcript_call.raised
            /\ ~a.english.isNone =>
                    transcript_call.value = Some(JoinWithSpace(a.english.val))
            /\ a.english.isNone /\ FirstFetched(a) # {} =>
                    \E i \in FirstFetched(a) :
                        transcript_call.value
                            = Some(JoinWithSpace(a.tracks.val[i].val))
            /\ a.english.isNone /\ FirstFetched(a) = {} =>
                    transcript_call.value = None

\* The English request failed, the first listed track failed to fetch, and
\* two later tracks with different texts fetched: the fetcher has returned.
SecondOfThreeTracksReturned ==
    /\ transcript_call.pc = "returned"
    /\ transcript_call.ans.english.isNone
    /\ ~transcript_call.ans.tracks.isNone
    /\ Len(transcript_call.ans.tracks.val) = 3
    /\ transcript_call.ans.tracks.val[1].isNone
    /\ ~transcript_call.ans.tracks.val[2].isNone
    /\ ~transcript_call.ans.tracks.val[3].isNone
    /\ transcript_call.ans.tracks.val[2] # transcript_call.ans.tracks.val[3]
    /\ ~transcript_call.value.isNone

----------------------------------------------------------------------------
(* The parsing of the model's response by the characterizer.               *)

\* The lines analyze_content_node parses: those of the trimmed response.
ParsedLines(content) ==
    SplitOn(Strip(content), "\n")

\* No line of the response is a descriptor line or a summary line.
Unlabelled(content) ==
    \A i \in DOMAIN ParsedLines(content) :
        /\ ~IsDescriptorLine(ParsedLines(content)[i])
        /\ ~IsSummaryLine(ParsedLines(content)[i])

\* C24: when the configured model returns a response without any descriptor
\* line (containing "descriptor:" or starting with "1.") and without any
\* summary line (containing "summary:" or starting with "2."), the
\* characterizer stores the descriptor "Creator" and, as the summary, the
\* whole response trimmed.
UnlabelledResponseDefaults ==
    Characterized /\ ModelRepliedText /\ Unlabelled(reply.val.content) =>
        /\ state.content_descriptor = TxtCreator
        /\ state.content_summary = Strip(reply.val.content)

\* The characterizer has stored its pair for an unlabelled response of two
\* lines within leading and trailing whitespace.
PaddedUnlabelledCharacterized ==
    /\ Characterized
    /\ ModelRepliedText
    /\ reply.val.content = LlmPadded
    /\ Unlabelled(reply.val.content)
    /\ Strip(reply.val.content) # reply.val.content
    /\ Len(ParsedLines(reply.val.content)) = 2

\* The labelled line whose assignment the loop makes last: the last
\* descriptor line, and the last summary line that is not a descriptor line.
LastDescriptorLine(content) ==
    {i \in DOMAIN ParsedLines(content) :
        /\ IsDescriptorLine(ParsedLines(content)[i])
        /\ \A j \in DOMAIN ParsedLines(content) :
                j > i => ~IsDescriptorLine(ParsedLines(content)[j])}

LastSummaryLine(content) ==
    {i \in DOMAIN ParsedLines(content) :
        /\ IsSummaryLine(ParsedLines(content)[i])
        /\ ~IsDescriptorLine(ParsedLines(content)[i])
        /\ \A j \in DOMAIN ParsedLines(content) :
                j > i => \/ ~IsSummaryLine(ParsedLines(content)[j])
                         \/ IsDescriptorLine(ParsedLines(content)[j])}

\* The text after the first colon of a line, with the quoting and emphasis
\* characters and the surrounding whitespace stripped.
StrippedAfterFirstColon(line) ==
    Strip(RemoveMarkup(StripChars(Strip(AfterFirstColon(line)),
                                  {"\"", "'", "*", "_", " "})))

\* C25: the characterizer splits a labelled line on its first colon: the
\* descriptor is the text after the first colon of the descriptor line,
\* with quoting and emphasis characters and surrounding whitespace
\* stripped, and the summary is the text after the first colon of the
\* summary line, further colons included.
SplitsOnFirstColon ==
    Characterized /\ ModelRepliedText =>
        /\ \A i \in LastDescriptorLine(reply.val.content) :
                Contains(<<":">>, ParsedLines(reply.val.content)[i]) =>
                    state.content_descriptor
                        = StrippedAfterFirstColon(
                                ParsedLines(reply.val.content)[i])
        /\ \A i \in LastSummaryLine(reply.val.content) :
                Contains(<<":">>, ParsedLines(reply.val.content)[i]) =>
                    state.content_summary
                        = Strip(AfterFirstColon(
                                    ParsedLines(reply.val.content)[i]))

----------------------------------------------------------------------------
(* The web API over MongoDB: backend/routes/auth.py and                    *)
(* backend/routes/requests.py.  The handlers are coroutines of one event   *)
(* loop: a handler runs without interruption from one await to the next,   *)
(* and the handlers of other requests run while it awaits the database.    *)
(* mongodb.py creates no index, so the database enforces no uniqueness.    *)

\* Number of clients with a request in flight at the same time.
NumClients ==
    2

\* Number of requests the web API receives.
MaxCalls ==
    3

Clients ==
    1..NumClients

\* The bodies of POST /auth/signup: a username the seeded database holds,
\* two forms with the same username, a form with the email of another.
SignupForms ==
    {[username |-> "zoe", email |-> "zed@x", user_type |-> "company"],
     [username |-> "bob", email |-> "bob@x", user_type |-> "creator"],
     [username |-> "bob", email |-> "rob@x", user_type |-> "company"],
     [username |-> "kim", email |-> "bob@x", user_type |-> "creator"]}

\* A database three sequential signups and one create_request leave: two
\* companies, a creator, and a content request of the first company.
SeededDb ==
    [users |-> {[id |-> 1, username |-> "acme", email |-> "acme@x",
                 user_type |-> "company"],
                [id |-> 2, username |-> "zoe", email |-> "zoe@x",
                 user_type |-> "creator"],
                [id |-> 3, username |-> "corp", email |-> "corp@x",
                 user_type |-> "company"]},
     content_requests |-> {[id |-> 4, company_id |-> 1,
                            caller |-> [sub |-> "acme",
                                        user_type |-> "company",
                                        holder |-> 1]]},
     creator_applications |-> {},
     ids |-> 4]

\* create_access_token(data={"sub": username, "user_type": user_type}); the
\* holder, which the token does not carry, is the user signup stored when it
\* issued the token.
access_token(user) ==
    [sub |-> user.username, user_type |-> user.user_type, holder |-> user.id]

\* The _id values a request may name: those of the documents, and one more.
RequestIds(d) ==
    {r.id : r \in d.content_requests} \cup {d.ids + 1}

\* What analyzer.analyze(profile_url) does: it raises, it returns a dict
\* with an "error" key, or it returns a profile.
AnalysisOutcomes ==
    {[kind |-> "raised", text |-> "connection reset"],
     [kind |-> "error", text |-> "Unsupported platform"],
     [kind |-> "profile", text |-> ""]}

\* find_one: the first document of the collection that matches, None when
\* none does.
find_one(docs) ==
    IF docs = {} THEN None
    ELSE Some(CHOOSE x \in docs : \A y \in docs : x.id <= y.id)

\* get_user_by_email
get_user_by_email(d, email) ==
    find_one({u \in d.users : u.email = email})

\* get_user_by_username
get_user_by_username(d, username) ==
    find_one({u \in d.users : u.username = username})

\* get_current_user: the user document the token's username resolves to.
get_current_user(d, token) ==
    get_user_by_username(d, token.sub)

HTTPException(status_code, detail) ==
    Some([status_code |-> status_code, detail |-> detail])

\* The response of a handler that returns.
Returned201 ==
    Some([status_code |-> 201, detail |-> <<>>])

Returned204 ==
    Some([status_code |-> 204, detail |-> <<>>])

\* The 500 response of the server for an exception a handler lets escape.
Unhandled ==
    Some([status_code |-> 500, detail |-> <<"Internal Server Error">>])

\* A handler at its first await.
arrived(handler, token, form, request_id, user, at) ==
    [handler |-> handler, pc |-> at, token |-> token, form |-> form,
     request_id |-> request_id, current_user |-> user, analysis |-> None,
     inserted |-> 0, response |-> None]

\* A request answered at the resolution of its dependencies.
answered(handler, token, request_id, user, response) ==
    [handler |-> handler, pc |-> "done", token |-> token, form |-> None,
     request_id |-> request_id, current_user |-> user, analysis |-> None,
     inserted |-> 0, response |-> response]

NoToken ==
    [sub |-> "", user_type |-> "", holder |-> 0]

ServiceInit ==
    /\ db \in {EmptyDb, SeededDb}
    /\ tokens = {access_token(u) : u \in db.users}
    /\ inflight = [c \in Clients |->
                        answered("none", NoToken, 0, None, None)]
    /\ started = 0
    /\ env \in {e \in FleetEnvironments : e.YOUTUBE_API_KEY}
    /\ PipelineIdle
    /\ fleet = <<>>
    /\ transcript_call = NoTranscriptCall

\* Client c can send a request: it has none in flight.
CanCall(c) ==
    inflight[c].pc = "done" /\ started < MaxCalls

\* The handler of client c resumes at step at.
At(c, handler, at) ==
    inflight[c].handler = handler /\ inflight[c].pc = at

Respond(c, response) ==
    inflight' = [inflight EXCEPT ![c].pc = "done", ![c].response = response]

Goto(c, at) ==
    inflight' = [inflight EXCEPT ![c].pc = at]

PipelineUnchanged ==
    UNCHANGED <<env, state, pc, executed, data, outbound, submitted, reply,
                listed, result, fleet, transcript_call>>

(* signup, auth.py:70-124 *)

\* The request arrives and signup awaits get_user_by_email.
SignupCheckEmail(c) ==
    /\ CanCall(c)
    /\ \E form \in SignupForms :
            inflight' = [inflight EXCEPT ![c] =
                IF Truthy(get_user_by_email(db, form.email))
                THEN [arrived("signup", NoToken, Some(form), 0, None, "done")
                        EXCEPT !.response =
                            HTTPException(400, <<"Email already registered">>)]
                ELSE arrived("signup", NoToken, Some(form), 0, None,
                             "check_username")]
    /\ started' = started + 1
    /\ UNCHANGED <<db, tokens>>
    /\ PipelineUnchanged

\* signup awaits get_user_by_username.
SignupCheckUsername(c) ==
    /\ At(c, "signup", "check_username")
    /\ IF Truthy(get_user_by_username(db, inflight[c].form.val.username))
       THEN Respond(c, HTTPException(400, <<"Username already taken">>))
       ELSE Goto(c, "insert_one")
    /\ UNCHANGED <<db, tokens, started>>
    /\ PipelineUnchanged

\* The user document signup inserts.
new_user(d, form) ==
    [id |-> d.ids + 1, username |-> form.username, email |-> form.email,
     user_type |-> form.user_type]

\* signup awaits db.users.insert_one, creates the token and returns.
SignupInsert(c) ==
    /\ At(c, "signup", "insert_one")
    /\ db' = [db EXCEPT !.users = @ \cup {new_user(db, inflight[c].form.val)},
                        !.ids = @ + 1]
    /\ tokens' = tokens
                    \cup {access_token(new_user(db, inflight[c].form.val))}
    /\ inflight' = [inflight EXCEPT ![c].pc = "done",
                                    ![c].inserted = db.ids + 1,
                                    ![c].response = Returned201]
    /\ UNCHANGED started
    /\ PipelineUnchanged

\* A request with a token arrives: get_current_user awaits
\* get_user_by_username, and the handler checks the type of the user found
\* (role is the type the handler requires) before its first await.
Arrive(c, handler, role, token, request_id, forbidden, at) ==
    /\ CanCall(c)
    /\ inflight' = [inflight EXCEPT ![c] =
            IF get_current_user(db, token).isNone
            THEN answered(handler, token, request_id, None,
                    HTTPException(401, <<"Could not validate credentials">>))
            ELSE IF get_current_user(db, token).val.user_type # role
            THEN answered(handler, token, request_id,
                          get_current_user(db, token),
                          HTTPException(403, <<forbidden>>))
            ELSE arrived(handler, token, None, request_id,
                         get_current_user(db, token), at)]
    /\ started' = started + 1
    /\ UNCHANGED <<db, tokens>>
    /\ PipelineUnchanged

(* create_request, requests.py:26-57 *)

CreateRequestArrive(c) ==
    \E token \in tokens :
        Arrive(c, "create_request", "company", token, 0,
               "Only companies can create content requests", "insert_one")

\* The document create_request inserts; caller, which the document does not
\* carry, is the token of the request.
new_request(d, call) ==
    [id |-> d.ids + 1, company_id |-> call.current_user.val.id,
     caller |-> call.token]

\* create_request awaits db.content_requests.insert_one.
CreateRequestInsert(c) ==
    /\ At(c, "create_request", "insert_one")
    /\ db' = [db EXCEPT !.content_requests =
                            @ \cup {new_request(db, inflight[c])},
                        !.ids = @ + 1]
    /\ inflight' = [inflight EXCEPT ![c].pc = "find_created",
                                    ![c].inserted = db.ids + 1]
    /\ UNCHANGED <<tokens, started>>
    /\ PipelineUnchanged

\* create_request awaits find_one of the request it inserted and returns
\* it; subscripting None raises when the request is gone.
CreateRequestFindCreated(c) ==
    /\ At(c, "create_request", "find_created")
    /\ IF \E r \in db.content_requests : r.id = inflight[c].inserted
       THEN Respond(c, Returned201)
       ELSE Respond(c, Unhandled)
    /\ UNCHANGED <<db, tokens, started>>
    /\ PipelineUnchanged

(* apply_to_request, requests.py:102-176 *)

ApplyArrive(c) ==
    \E token \in tokens, request_id \in RequestIds(db) :
        Arrive(c, "apply_to_request", "creator", token, request_id,
               "Only creators can apply to requests", "find_request")

\* apply_to_request awaits find_one of the content request.
ApplyFindRequest(c) ==
    /\ At(c, "apply_to_request", "find_request")
    /\ IF \E r \in db.content_requests : r.id = inflight[c].request_id
       THEN Goto(c, "find_existing")
       ELSE Respond(c, HTTPException(404, <<"Content request not found">>))
    /\ UNCHANGED <<db, tokens, started>>
    /\ PipelineUnchanged

\* The applications of the creator of call to the request of call.
existing_applications(d, call) ==
    {a \in d.creator_applications :
        /\ a.request_id = call.request_id
        /\ a.creator_id = call.current_user.val.id}

\* apply_to_request awaits find_one of an application of this creator to
\* this request.
ApplyFindExisting(c) ==
    /\ At(c, "apply_to_request", "find_existing")
    /\ IF Truthy(find_one(existing_applications(db, inflight[c])))
       THEN Respond(c, HTTPException(400,
                        <<"You have already applied to this request">>))
       ELSE Goto(c, "analyze")
    /\ UNCHANGED <<db, tokens, started>>
    /\ PipelineUnchanged

\* The try block around analyzer.analyze: what it raises, None when it
\* raises nothing.  The HTTPException raised for an error result is raised
\* inside the try block and is an Exception: the except clause catches it
\* and raises the 500 response with str() of it.
analysis_response(outcome) ==
    CASE outcome.kind = "raised" ->
            HTTPException(500, <<"Profile analysis failed: ", outcome.text>>)
      [] outcome.kind = "error" ->
            HTTPException(500, <<"Profile analysis failed: ",
                                 "400: Failed to analyze profile: ",
                                 outcome.text>>)
      [] OTHER -> None

\* The document apply_to_request inserts; caller is the token of the
\* request.
new_application(d, call) ==
    [id |-> d.ids + 1, request_id |-> call.request_id,
     creator_id |-> call.current_user.val.id, caller |-> call.token]

\* apply_to_request runs the analysis, which does not await, and awaits
\* db.creator_applications.insert_one unless the try block raised.
ApplyAnalyzeInsert(c) ==
    /\ At(c, "apply_to_request", "analyze")
    /\ \E outcome \in AnalysisOutcomes :
            IF analysis_response(outcome).isNone
            THEN /\ db' = [db EXCEPT !.creator_applications =
                                @ \cup {new_application(db, inflight[c])},
                                     !.ids = @ + 1]
                 /\ inflight' = [inflight EXCEPT
                                    ![c].pc = "find_created",
                                    ![c].analysis = Some(outcome),
                                    ![c].inserted = db.ids + 1]
            ELSE /\ inflight' = [inflight EXCEPT
                                    ![c].pc = "done",
                                    ![c].analysis = Some(outcome),
                                    ![c].response = analysis_response(outcome)]
                 /\ UNCHANGED db
    /\ UNCHANGED <<tokens, started>>
    /\ PipelineUnchanged

\* apply_to_request awaits find_one of the application it inserted and
\* returns it; subscripting None raises when the application is gone.
ApplyFindCreated(c) ==
    /\ At(c, "apply_to_request", "find_created")
    /\ IF \E a \in db.creator_applications : a.id = inflight[c].inserted
       THEN Respond(c, Returned201)
       ELSE Respond(c, Unhandled)
    /\ UNCHANGED <<db, tokens, started>>
    /\ PipelineUnchanged

(* delete_request, requests.py:268-301 *)

DeleteRequestArrive(c) ==
    \E token \in tokens, request_id \in RequestIds(db) :
        Arrive(c, "delete_request", "company", token, request_id,
               "Only companies can delete requests", "delete_one")

\* The requests delete_one matches: this _id, owned by this company.
owned_requests(d, call) ==
    {r \in d.content_requests :
        r.id = call.request_id /\ r.company_id = call.current_user.val.id}

\* delete_request awaits db.content_requests.delete_one.
DeleteRequestDeleteOne(c) ==
    /\ At(c, "delete_request", "delete_one")
    /\ IF owned_requests(db, inflight[c]) = {}
       THEN /\ Respond(c, HTTPException(404,
                <<"Request not found or you don't have permission to delete it">>))
            /\ UNCHANGED db
       ELSE /\ db' = [db EXCEPT !.content_requests =
                            @ \ owned_requests(db, inflight[c])]
            /\ Goto(c, "delete_many")
    /\ UNCHANGED <<tokens, started>>
    /\ PipelineUnchanged

\* delete_request awaits db.creator_applications.delete_many and returns.
DeleteRequestDeleteMany(c) ==
    /\ At(c, "delete_request", "delete_many")
    /\ db' = [db EXCEPT !.creator_applications =
                    {a \in @ : a.request_id # inflight[c].request_id}]
    /\ Respond(c, Returned204)
    /\ UNCHANGED <<tokens, started>>
    /\ PipelineUnchanged

ServiceNext ==
    \/ \E c \in Clients : SignupCheckEmail(c)
    \/ \E c \in Clients : SignupCheckUsername(c)
    \/ \E c \in Clients : SignupInsert(c)
    \/ \E c \in Clients : CreateRequestArrive(c)
    \/ \E c \in Clients : CreateRequestInsert(c)
    \/ \E c \in Clients : CreateRequestFindCreated(c)
    \/ \E c \in Clients : ApplyArrive(c)
    \/ \E c \in Clients : ApplyFindRequest(c)
    \/ \E c \in Clients : ApplyFindExisting(c)
    \/ \E c \in Clients : ApplyAnalyzeInsert(c)
    \/ \E c \in Clients : ApplyFindCreated(c)
    \/ \E c \in Clients : DeleteRequestArrive(c)
    \/ \E c \in Clients : DeleteRequestDeleteOne(c)
    \/ \E c \in Clients : DeleteRequestDeleteMany(c)

ServiceSpec ==
    ServiceInit /\ [][ServiceNext]_vars

----------------------------------------------------------------------------
(* Properties of the web API.                                              *)

\* C26: the application store holds at most one application per
\* (request_id, creator_id) pair, whatever the sequence and interleaving of
\* apply_to_request calls.
AtMostOneApplicationPerPair ==
    \A a, b \in db.creator_applications :
        a.request_id = b.request_id /\ a.creator_id = b.creator_id => a = b

\* C27: once delete_request has returned its success response for a
\* request, no stored application references that request, whatever
\* apply_to_request calls ran beside it.
NoApplicationOfDeletedRequest ==
    \A c \in DOMAIN inflight :
        inflight[c].handler = "delete_request"
            /\ inflight[c].response = Returned204 =>
                \A a \in db.creator_applications :
                    a.request_id # inflight[c].request_id

\* C28: no two stored users share a username and no two stored users share
\* an email, whatever the sequence and interleaving of signup calls.
UniqueUsernamesAndEmails ==
    \A u, v \in db.users :
        u.username = v.username \/ u.email = v.email => u = v

\* C29: an apply_to_request whose profile analysis returned an error result
\* is answered 400 "Failed to analyze profile: <error>", and an answer 500
\* of the analysis step is given only when the analysis raised.
ErrorResultIsBadRequest ==
    \A c \in DOMAIN inflight :
        inflight[c].handler = "apply_to_request"
            /\ ~inflight[c].analysis.isNone
            /\ ~inflight[c].response.isNone =>
                /\ inflight[c].analysis.val.kind = "error" =>
                        inflight[c].response
                            = HTTPException(400,
                                <<"Failed to analyze profile: ",
                                  inflight[c].analysis.val.text>>)
                /\ inflight[c].response.val.status_code = 500 =>
                        inflight[c].analysis.val.kind = "raised"

\* C30: every stored content request was created by a user of type company
\* and carries the id of that user as company_id, and every stored
\* application was created by a user of type creator.
RoleSeparation ==
    /\ \A r \in db.content_requests :
            /\ r.caller.user_type = "company"
            /\ r.company_id = r.caller.holder
    /\ \A a \in db.creator_applications :
            a.caller.user_type = "creator"
====
